---------------------------- MODULE Spec2Model ----------------------------
(***************************************************************************)
(* Model of the erst simulator (simulator/src): the request pipeline of    *)
(* main, the operation dispatcher with its panic boundary, the mocked fee  *)
(* computation and the strict WASM validator.                              *)
(*                                                                         *)
(* Conventions.  Option<T> is a sequence of length at most one: None is    *)
(* <<>> and Some(x) is <<x>>.  A Rust string is a sequence of tokens, so   *)
(* that starts_with and contains are computed, not assumed.  u64 and u32   *)
(* keep a width, scaled down to Bits64 and Bits32 bits; the arithmetic of  *)
(* the code (saturating_add, saturating_mul, `as u64`) is modelled at that *)
(* width.                                                                  *)
(***************************************************************************)
EXTENDS Integers, Sequences, FiniteSets, TLC

VARIABLES
    pc,                 \* position of main
    request,            \* the parsed SimulationRequest (fields main reads later)
    wasm_rejected,      \* vm::enforce_soroban_compatibility returned Err for contract_wasm
    host_constructed,   \* runner::SimHost::new has run
    host,               \* the soroban Host: events recorded, budget counters
    result_meta,        \* `_result_meta`: the decoded TransactionResultMeta, if any
    ledger_inputs,      \* ledger_entries and restore_preamble of the request
    loaded_entries_count,
    op_index,           \* number of operations of the envelope whose dispatch has started
    exec_logs,          \* `logs` of execute_operations
    coverage,           \* CoverageTracker.invoked_functions (0 = no entry)
    result,             \* what catch_unwind(execute_operations) returned
    stdout,             \* JSON documents printed on standard output
    exit_code,          \* process exit status, -1 while running
    fee_in, fee_out,    \* input and result of mocked_required_fee_stroops (FeeSpec)
    vm_in, vm_out,      \* input and result of enforce_soroban_compatibility (VmSpec)
    mapper, map_out,    \* a SourceMapper and the last lookup made on it (MapperSpec)
    snapshot,           \* a LedgerSnapshot's entries (SnapshotSpec)
    snapshot_out,       \* the last from_base64_map call: its argument and result
    cache_files,        \* the .bin files of the cache directory, by WASM hash (CacheSpec)
    stored_entries,     \* reference map: the entry last stored per hash since the last clear
    cache_out,          \* the last SourceMapCache call and what it returned
    trap_in, trap_out,  \* input and result of classify_trap (TrapSpec)
    lcov_in, lcov_out,  \* input and result of generate_lcov_report (LcovSpec)
    sim_host,           \* a runner::SimHost (WipeSpec)
    wipe_out,           \* the last wipe_ledger_state_preserving_modules call
    line_in, line_out,  \* units of a .debug_line and the line cache built (LineCacheSpec)
    race_file,          \* the bytes of one <hash>.bin shared by processes (RaceSpec)
    race_procs          \* the processes in store and in get on that file

vars == <<pc, request, wasm_rejected, host_constructed, host, result_meta, ledger_inputs,
          loaded_entries_count,
          op_index, exec_logs, coverage, result, stdout, exit_code,
          fee_in, fee_out, vm_in, vm_out, mapper, map_out, snapshot, snapshot_out,
          cache_files, stored_entries, cache_out, trap_in, trap_out,
          lcov_in, lcov_out, sim_host, wipe_out, line_in, line_out,
          race_file, race_procs>>

\* State of the library components, which main never touches.
mapperVars == <<mapper, map_out>>
snapshotVars == <<snapshot, snapshot_out>>
cacheVars == <<cache_files, stored_entries, cache_out>>
trapVars == <<trap_in, trap_out>>
lcovVars == <<lcov_in, lcov_out>>
\* Components added after the trap classifier.
wipeVars == <<sim_host, wipe_out>>
lineVars == <<line_in, line_out>>
raceVars == <<race_file, race_procs>>
extLibVars == <<lcovVars, wipeVars, lineVars, raceVars>>
libVars == <<mapperVars, snapshotVars, cacheVars, trapVars, extLibVars>>

mainVars == <<pc, request, wasm_rejected, host_constructed, host, result_meta,
              ledger_inputs,
              loaded_entries_count,
              op_index, exec_logs, coverage, result, stdout, exit_code>>

-----------------------------------------------------------------------------
(* Bounds of the model *)

MaxOps == 2          \* operations per envelope
MaxEntries == 1      \* ledger entries per request
MaxBodies == 2       \* function bodies per WASM module
MaxBodyLen == 2      \* operators per function body
MaxRows == 2         \* line-table intervals per WASM module
MaxLabels == 2       \* labels in a coverage tracker
MaxWipes == 2        \* consecutive wipes of a SimHost that are counted
MaxSeqRows == 2      \* rows of a line-number sequence before its end
MaxChunk == 5        \* bytes of a partial write or read call
Bits64 == 16         \* modelled width of u64
Bits32 == 8          \* modelled width of u32

U64Max == 2^Bits64 - 1
U32Max == 2^Bits32 - 1

None == <<>>
Some(x) == <<x>>
IsSome(o) == Len(o) = 1
Unwrap(o) == o[1]

Max(a, b) == IF a >= b THEN a ELSE b
Min(a, b) == IF a <= b THEN a ELSE b

SeqsUpTo(S, n) == UNION {[1..k -> S] : k \in 0..n}

\* str::contains for a marker that is one token
Contains(msg, tok) == \E i \in 1..Len(msg) : msg[i] = tok

\* str::starts_with for a one-token prefix
StartsWith(msg, tok) == Len(msg) >= 1 /\ msg[1] = tok

-----------------------------------------------------------------------------
(* u64 arithmetic *)

saturating_add(a, b) == IF a > U64Max - b THEN U64Max ELSE a + b

saturating_mul(a, b) == IF a = 0 \/ b = 0 THEN 0
                        ELSE IF a > U64Max \div b THEN U64Max ELSE a * b

\* `x as u64` for a signed 64-bit x
as_u64(x) == x % (U64Max + 1)

ERR_MEMORY_LIMIT_EXCEEDED == "ERR_MEMORY_LIMIT_EXCEEDED"

-----------------------------------------------------------------------------
(* main.rs: the mocked fee check *)

\* The declared fee of the envelope.  Tx and TxV0 carry a u32 fee; the fee of a
\* fee-bump transaction is a signed 64-bit integer, converted with `as u64`.
transaction_fee_stroops(envelope) ==
    CASE envelope.type = "Tx" -> envelope.fee
      [] envelope.type = "TxV0" -> envelope.fee
      [] envelope.type = "TxFeeBump" -> as_u64(envelope.fee)

\* Units rounded down instead of up.
resource_units_floor(cpu_insns, mem_bytes) ==
    Max(saturating_add(cpu_insns \div 10000, mem_bytes \div 1024), 1)

resource_units(cpu_insns, mem_bytes) ==
    LET cpu_units == saturating_add(cpu_insns, 9999) \div 10000
        mem_units == saturating_add(mem_bytes, 1023) \div 1024
    IN  Max(saturating_add(cpu_units, mem_units), 1)

mocked_required_fee_stroops(req, operations_count, cpu_insns, mem_bytes) ==
    LET after_base ==
            IF IsSome(req.mock_base_fee)
            THEN saturating_add(0, saturating_mul(Unwrap(req.mock_base_fee),
                                                  operations_count))
            ELSE 0
        after_gas ==
            IF IsSome(req.mock_gas_price)
            THEN saturating_add(after_base,
                                saturating_mul(Unwrap(req.mock_gas_price),
                                               resource_units(cpu_insns, mem_bytes)))
            ELSE after_base
        enabled == IsSome(req.mock_base_fee) \/ IsSome(req.mock_gas_price)
    IN  IF enabled THEN Some(after_gas) ELSE None

-----------------------------------------------------------------------------
(* vm.rs: the strict Soroban compatibility check *)

\* The operators is_float_op matches, by their wasmparser names.
FloatOpPatterns == {
    "F32Abs", "F32Neg", "F32Ceil", "F32Floor", "F32Trunc", "F32Nearest",
    "F32Sqrt", "F32Add", "F32Sub", "F32Mul", "F32Div", "F32Min", "F32Max",
    "F32Copysign", "F32Eq", "F32Ne", "F32Lt", "F32Gt", "F32Le", "F32Ge",
    "F32ConvertI32S", "F32ConvertI32U", "F32ConvertI64S", "F32ConvertI64U",
    "F32DemoteF64", "F32ReinterpretI32", "F32x4Splat", "F32x4Eq",
    "F32x4Ne", "F32x4Lt", "F32x4Gt", "F32x4Le", "F32x4Ge", "F32Const",
    "F64Abs", "F64Neg", "F64Ceil", "F64Floor", "F64Trunc", "F64Nearest",
    "F64Sqrt", "F64Add", "F64Sub", "F64Mul", "F64Div", "F64Min", "F64Max",
    "F64Copysign", "F64Eq", "F64Ne", "F64Lt", "F64Gt", "F64Le", "F64Ge",
    "F64ConvertI32S", "F64ConvertI32U", "F64ConvertI64S", "F64ConvertI64U",
    "F64PromoteF32", "F64ReinterpretI64", "F64x2Splat", "F64x2Eq",
    "F64x2Ne", "F64x2Lt", "F64x2Gt", "F64x2Le", "F64x2Ge", "F64Const",
    "I32TruncF32S", "I32TruncF32U", "I32TruncF64S", "I32TruncF64U",
    "I64TruncF32S", "I64TruncF32U", "I64TruncF64S", "I64TruncF64U",
    "I32TruncSatF32S", "I32TruncSatF32U", "I32TruncSatF64S",
    "I32TruncSatF64U", "I64TruncSatF32S", "I64TruncSatF32U",
    "I64TruncSatF64S", "I64TruncSatF64U"
}

is_float_op(op) == op \in FloatOpPatterns

Ok(v) == [ok |-> TRUE, val |-> v, err |-> <<>>]
Err(e) == [ok |-> FALSE, val |-> <<>>, err |-> e]

InvalidOperator == "<invalid>"

FloatErrorText ==
    "floating-point instructions are not allowed under strict Soroban compatibility"

\* The `while !ops.eof()` loop over one function body, from operator i on.
RECURSIVE scan_operators(_, _)
scan_operators(ops, i) ==
    IF i > Len(ops) THEN Ok(<<>>)
    ELSE IF ops[i] = InvalidOperator THEN Err(<<"operator read error">>)
    ELSE IF is_float_op(ops[i]) THEN Err(<<FloatErrorText>>)
    ELSE scan_operators(ops, i + 1)

\* The `for payload in parse_all(wasm)` loop, from payload i on.
RECURSIVE scan_payloads(_, _)
scan_payloads(wasm, i) ==
    IF i > Len(wasm) THEN Ok(<<>>)
    ELSE IF wasm[i].kind = "Malformed" THEN Err(<<"payload parse error">>)
    ELSE IF wasm[i].kind = "CodeSectionEntry"
         THEN LET r == scan_operators(wasm[i].ops, 1)
              IN  IF r.ok THEN scan_payloads(wasm, i + 1) ELSE r
    ELSE scan_payloads(wasm, i + 1)

enforce_soroban_compatibility(wasm) == scan_payloads(wasm, 1)

-----------------------------------------------------------------------------
(* main.rs: host events and their structured records *)

\* Topics (as their {:?} text) whose lowercase form contains "budget" or
\* "instruction".
BudgetTopics == {"Symbol(budget)", "Symbol(Instruction)"}

Whitespace == {" "}

RECURSIVE trim_matches(_, _)
trim_matches(s, chars) ==
    IF Len(s) = 0 THEN s
    ELSE IF s[1] \in chars THEN trim_matches(Tail(s), chars)
    ELSE IF s[Len(s)] \in chars THEN trim_matches(SubSeq(s, 1, Len(s) - 1), chars)
    ELSE s

extract_wasm_instruction(topics, data) ==
    LET has_budget_topic == \E i \in 1..Len(topics) : topics[i] \in BudgetTopics
        found == {i \in 1..Len(data) : data[i] = "Instruction:"}
    IN  IF ~has_budget_topic THEN None
        ELSE IF found = {} THEN None
        ELSE LET idx == CHOOSE i \in found : \A j \in found : i <= j
                 rest == SubSeq(data, idx + 1, Len(data))
                 instr == trim_matches(trim_matches(trim_matches(rest, Whitespace),
                                                    {"\""}), {"'"})
             IN  IF Len(instr) = 0 THEN None ELSE Some(instr)

\* event_type spelled as the category is.
event_type_text_capitalized(type_) ==
    CASE type_ = "Contract" -> "Contract"
      [] type_ = "System" -> "System"
      [] type_ = "Diagnostic" -> "Diagnostic"

event_type_text(type_) ==
    CASE type_ = "Contract" -> "contract"
      [] type_ = "System" -> "system"
      [] type_ = "Diagnostic" -> "diagnostic"

\* The closure of main that builds a DiagnosticEvent from a host event.
diagnostic_event(e) ==
    [event_type |-> event_type_text(e.type_),
     contract_id |-> e.contract_id,
     topics |-> e.topics,
     data |-> e.data,
     in_successful_contract_call |-> ~e.failed_call,
     wasm_instruction |-> extract_wasm_instruction(e.topics, e.data)]

category_text(type_) ==
    CASE type_ = "Contract" -> "Contract"
      [] type_ = "System" -> "System"
      [] type_ = "Diagnostic" -> "Diagnostic"

\* in_successful_contract_call copied from failed_call, not negated.
categorized_event_inverted(e) ==
    [category |-> category_text(e.type_),
     event |-> [event_type |-> event_type_text(e.type_),
                contract_id |-> e.contract_id,
                topics |-> e.topics,
                data |-> e.data,
                wasm_instruction |-> extract_wasm_instruction(e.topics, e.data),
                in_successful_contract_call |-> e.failed_call]]

categorized_event(e) ==
    [category |-> category_text(e.type_),
     event |-> [event_type |-> event_type_text(e.type_),
                contract_id |-> e.contract_id,
                topics |-> e.topics,
                data |-> e.data,
                wasm_instruction |-> extract_wasm_instruction(e.topics, e.data),
                in_successful_contract_call |-> ~e.failed_call]]

categorize_events(events) == [i \in 1..Len(events) |-> categorized_event(events[i])]

\* format!("{:?}", e)
debug_text(e) == [text |-> "HostEvent", of |-> Some(e)]

-----------------------------------------------------------------------------
(* main.rs: responses *)

SimulationResponse(status, error, error_code, events, diagnostic_events, categorized_events, logs, optimization_report, budget_usage, stack_trace) ==
    [status |-> status, error |-> error, error_code |-> error_code,
     events |-> events, diagnostic_events |-> diagnostic_events,
     categorized_events |-> categorized_events, logs |-> logs,
     optimization_report |-> optimization_report,
     budget_usage |-> budget_usage, stack_trace |-> stack_trace]

\* A response with no telemetry, as built at four places of main and in send_error.
BareErrorResponse(msg, stack_trace) ==
    SimulationResponse("error", Some(msg), None, <<>>, <<>>, <<>>, <<>>, None, None,
                       stack_trace)

\* println! of the serialized response followed by the end of the process.
Emit(response, code) ==
    /\ stdout' = Append(stdout, response)
    /\ exit_code' = code
    /\ pc' = "exited"

\* send_error without its exit(1): main returns after it, status 0.
send_error_exit0(msg) ==
    Emit(BareErrorResponse(msg, Some([origin |-> "from_host_error", raw_message |-> msg])), 0)

send_error(msg) ==
    Emit(BareErrorResponse(msg, Some([origin |-> "from_host_error", raw_message |-> msg])), 1)

-----------------------------------------------------------------------------
(* snapshot/mod.rs: base64 and XDR decoding of ledger keys and entries *)

\* A base64 text is a sequence of characters, each standing for one byte;
\* BadChar is a character outside the alphabet.
B64(byte) == [b64 |-> byte]
BadChar == [b64 |-> -1]

base64_encode(bytes) == [i \in 1..Len(bytes) |-> B64(bytes[i])]

base64_decode(text) ==
    IF \E i \in 1..Len(text) : text[i].b64 < 0
    THEN Err(<<"Invalid symbol">>)
    ELSE Ok([i \in 1..Len(text) |-> text[i].b64])

\* XDR values: a LedgerKey is the tag of its type and an account id, a
\* LedgerEntry is last_modified_ledger_seq, the tag, the account id and a
\* balance.  from_xdr accepts exactly the bytes to_xdr writes.
AccountIds == {1, 2}
AccountTag == 0

LedgerKey(account_id) == [type |-> "Account", account_id |-> account_id]
LedgerEntry(seq, account_id, balance) ==
    [last_modified_ledger_seq |-> seq, account_id |-> account_id, balance |-> balance]

LedgerKey_to_xdr(key) == <<AccountTag, key.account_id>>
LedgerEntry_to_xdr(entry) ==
    <<entry.last_modified_ledger_seq, AccountTag, entry.account_id, entry.balance>>

LedgerKey_from_xdr(bytes) ==
    IF Len(bytes) = 2 /\ bytes[1] = AccountTag /\ bytes[2] \in AccountIds
    THEN Ok(LedgerKey(bytes[2]))
    ELSE Err(<<"xdr value invalid">>)

LedgerEntry_from_xdr(bytes) ==
    IF Len(bytes) = 4 /\ bytes[2] = AccountTag /\ bytes[3] \in AccountIds
    THEN Ok(LedgerEntry(bytes[1], bytes[3], bytes[4]))
    ELSE Err(<<"xdr value invalid">>)

decode_ledger_key(key_xdr) ==
    IF key_xdr = <<>> THEN Err(<<"Failed to decode base64: ", "LedgerKey: empty payload">>)
    ELSE LET bytes == base64_decode(key_xdr)
         IN  IF ~bytes.ok THEN Err(<<"Failed to decode base64: ", "LedgerKey: ">> \o bytes.err)
             ELSE IF bytes.val = <<>>
                  THEN Err(<<"Failed to decode base64: ", "LedgerKey: decoded payload is empty">>)
             ELSE LET key == LedgerKey_from_xdr(bytes.val)
                  IN  IF key.ok THEN key
                      ELSE Err(<<"Failed to parse XDR: ", "LedgerKey: ">> \o key.err)

decode_ledger_entry(entry_xdr) ==
    IF entry_xdr = <<>> THEN Err(<<"Failed to decode base64: ", "LedgerEntry: empty payload">>)
    ELSE LET bytes == base64_decode(entry_xdr)
         IN  IF ~bytes.ok THEN Err(<<"Failed to decode base64: ", "LedgerEntry: ">> \o bytes.err)
             ELSE IF bytes.val = <<>>
                  THEN Err(<<"Failed to decode base64: ", "LedgerEntry: decoded payload is empty">>)
             ELSE LET entry == LedgerEntry_from_xdr(bytes.val)
                  IN  IF entry.ok THEN entry
                      ELSE Err(<<"Failed to parse XDR: ", "LedgerEntry: ">> \o entry.err)

\* HashMap::insert on a map held as a function
map_insert(map, key, value) ==
    [k \in DOMAIN map \cup {key} |-> IF k = key THEN value ELSE map[k]]

EmptyMap == [k \in {} |-> None]

LedgerSnapshot_new == EmptyMap

\* The `for (key_xdr, entry_xdr) in entries` loop from pair i on, `entries`
\* being the pairs in the map's iteration order.
RECURSIVE from_base64_map_loop(_, _, _)
from_base64_map_loop(entries, i, decoded_entries) ==
    IF i > Len(entries) THEN Ok(decoded_entries)
    ELSE LET key == decode_ledger_key(entries[i].key)
         IN  IF ~key.ok THEN key
             ELSE LET entry == decode_ledger_entry(entries[i].entry)
                  IN  IF ~entry.ok THEN entry
                      ELSE from_base64_map_loop(
                               entries, i + 1,
                               map_insert(decoded_entries, LedgerKey_to_xdr(key.val),
                                          entry.val))

from_base64_map(entries) == from_base64_map_loop(entries, 1, EmptyMap)

insert(entries, key, entry) == map_insert(entries, key, entry)

\* Ledger keys and entries a caller has at hand.
LedgerKeys == {LedgerKey(a) : a \in AccountIds}
LedgerEntries == {LedgerEntry(999, 1, 5), LedgerEntry(7, 2, 0)}

\* Bytes that are valid base64 payloads but no XDR value (the key of
\* test_snapshot_insert_and_get).
JunkBytes == <<1, 2, 3, 4>>

KeyTexts ==
    {<<>>, <<BadChar>>, base64_encode(JunkBytes)}
    \cup {base64_encode(LedgerKey_to_xdr(k)) : k \in LedgerKeys}

EntryTexts ==
    {<<>>, <<BadChar>>, base64_encode(<<9>>)}
    \cup {base64_encode(LedgerEntry_to_xdr(e)) : e \in LedgerEntries}

\* HashMap<String, String> values in an iteration order: the keys are distinct.
Base64Maps ==
    {m \in SeqsUpTo([key : KeyTexts, entry : EntryTexts], MaxEntries) :
        \A i, j \in 1..Len(m) : i # j => m[i].key # m[j].key}

KeyBytes == {JunkBytes} \cup {LedgerKey_to_xdr(k) : k \in LedgerKeys}

-----------------------------------------------------------------------------
(* Inputs: the requests, envelopes and host behaviours the model draws from *)

InvokeTransfer ==
    [body |-> "InvokeHostFunction", host_function |-> "InvokeContract",
     function_name |-> "transfer"]
InvokeUpload ==
    [body |-> "InvokeHostFunction", host_function |-> "UploadContractWasm",
     function_name |-> ""]
Payment ==
    [body |-> "Payment", host_function |-> "", function_name |-> ""]

Operations == {InvokeTransfer, InvokeUpload, Payment}

\* (type, fee) of the envelopes drawn: u32 fees for Tx and TxV0, an i64 fee for
\* TxFeeBump (whose operations are those of the inner transaction).
EnvelopeFees ==
    {<<"Tx", 100>>, <<"TxV0", 0>>, <<"TxFeeBump", -1>>}

Envelopes ==
    {[type |-> tf[1], fee |-> tf[2], operations |-> ops] :
        tf \in EnvelopeFees, ops \in SeqsUpTo(Operations, MaxOps)}

EmptyEnvelope == [type |-> "Tx", fee |-> 0, operations |-> <<>>]

EnvelopeInputs ==
    {[decode |-> "Ok", envelope |-> e] : e \in Envelopes}
    \cup {[decode |-> d, envelope |-> EmptyEnvelope] : d \in {"BadBase64", "BadXdr"}}

Requests ==
    [envelope_xdr : EnvelopeInputs,
     memory_limit : {None, Some(1024)},
     mock_base_fee : {None, Some(100)},
     mock_gas_price : {None, Some(50)},
     enable_optimization_advisor : BOOLEAN]

Req == request[1]

\* contract_wasm: absent, not base64, or a module (a sequence of payloads)
CodeEntry(ops) == [kind |-> "CodeSectionEntry", ops |-> ops]
OtherSection == [kind |-> "Other", ops |-> <<>>]
MalformedPayload == [kind |-> "Malformed", ops |-> <<>>]

ContractWasmInputs ==
    {[given |-> FALSE, base64_ok |-> FALSE, wasm |-> <<>>],
     [given |-> TRUE, base64_ok |-> FALSE, wasm |-> <<>>]}
    \cup {[given |-> TRUE, base64_ok |-> TRUE, wasm |-> w] :
            w \in {<<OtherSection, CodeEntry(<<"I32Const", "I32Add">>)>>,
                   <<CodeEntry(<<"F32Const">>)>>,
                   <<CodeEntry(<<"V128Const", "F32x4Add">>)>>,
                   <<MalformedPayload>>}}

OkKeyText == base64_encode(LedgerKey_to_xdr(LedgerKey(1)))
OkEntryText == base64_encode(LedgerEntry_to_xdr(LedgerEntry(999, 1, 5)))

\* (key, entry) pairs of request.ledger_entries: one that decodes, and one for
\* each way a key or an entry fails.  main stops at the first half that fails,
\* so a pair with a failing key carries a decodable entry.
LedgerPairs ==
    {[key |-> OkKeyText, entry |-> t]
        : t \in {<<>>, <<BadChar>>, base64_encode(<<9>>), OkEntryText}}
    \cup {[key |-> t, entry |-> OkEntryText]
        : t \in {<<>>, <<BadChar>>, base64_encode(JunkBytes)}}

\* request.restore_preamble: absent, or a "ledger_entries" object whose one pair
\* has a key that is not base64.
RestorePreambles ==
    {None, Some(<<[key |-> <<BadChar>>, entry |-> OkEntryText]>>)}

\* request.ledger_entries: absent, or a non-empty map in an iteration order.
LedgerEntryInputs ==
    {None} \cup {Some(m) : m \in {e \in SeqsUpTo(LedgerPairs, MaxEntries) :
                                    /\ e # <<>>
                                    /\ \A i, j \in 1..Len(e) : i # j => e[i].key # e[j].key}}

\* Events the host records.
HostEvents ==
    {[failed_call |-> FALSE, type_ |-> "Contract", contract_id |-> Some("Hash(09)"),
      topics |-> <<"Symbol(transfer)">>, data |-> <<"U32(1)">>],
     [failed_call |-> TRUE, type_ |-> "Diagnostic", contract_id |-> None,
      topics |-> <<"Symbol(budget)">>,
      data |-> <<"\"", "Instruction:", " ", "i32.add", "\"">>],
     [failed_call |-> FALSE, type_ |-> "System", contract_id |-> None,
      topics |-> <<>>, data |-> <<"Void">>]}

\* Payloads of panics raised inside the host.
HostPanics ==
    {[type |-> "str", origin |-> "host", msg |-> <<"index out of bounds">>],
     [type |-> "String", origin |-> "host",
      msg |-> <<"contract aborted: ", ERR_MEMORY_LIMIT_EXCEEDED>>],
     [type |-> "other", origin |-> "host", msg |-> <<>>]}

NoPayload == [type |-> "none", origin |-> "none", msg |-> <<>>]

\* What one call of host.invoke_function can do: record events, consume budget,
\* and return a value, return a HostError, or panic.
InvokeOutcomes ==
    {[ret |-> "Ok", emitted |-> <<e>>, payload |-> NoPayload,
      cpu |-> IF e.type_ = "System" THEN 20001 ELSE 10000,
      mem |-> IF e.type_ = "System" THEN 2048 ELSE 512] : e \in HostEvents}
    \cup
    {[ret |-> "Err", emitted |-> ev, cpu |-> 5000, mem |-> 600, payload |-> NoPayload] :
        ev \in {<<>>} \cup {<<e>> : e \in {h \in HostEvents : h.failed_call}}}
    \cup
    {[ret |-> "Panic", emitted |-> <<>>, cpu |-> 0, mem |-> 0, payload |-> p] :
        p \in HostPanics}

\* `calls`: the host functions the host was asked to invoke, in order.
FreshHost == [events |-> <<>>, cpu |-> 0, mem |-> 0, storage |-> EmptyMap, calls |-> <<>>]

NoResult == [kind |-> "none", logs |-> <<>>, error |-> <<>>, payload |-> NoPayload]

-----------------------------------------------------------------------------
(* main.rs: coverage tracker and memory check *)

function_label(op) ==
    IF op.host_function = "InvokeContract"
    THEN <<"InvokeContract::", op.function_name>>
    ELSE <<op.host_function>>

FunctionLabels == {function_label(op) : op \in {o \in Operations : o.body = "InvokeHostFunction"}}

\* Every invocation counted under the label of the contract call.
record_operation_one_label(cov, op) ==
    IF op.body = "InvokeHostFunction"
    THEN [cov EXCEPT ![function_label(InvokeTransfer)] = saturating_add(@, 1)]
    ELSE cov

record_operation(cov, op) ==
    IF op.body = "InvokeHostFunction"
    THEN [cov EXCEPT ![function_label(op)] = saturating_add(@, 1)]
    ELSE cov

\* None when the check passes, otherwise the payload of the panic it raises.
\* (`origin` is not part of the payload: it records who panicked.)
check_memory_limit_or_panic(h, memory_limit) ==
    IF IsSome(memory_limit) /\ h.mem > Unwrap(memory_limit)
    THEN Some([type |-> "String", origin |-> "memory_check",
               msg |-> <<ERR_MEMORY_LIMIT_EXCEEDED, ": consumed ", ToString(h.mem),
                         " bytes, limit ", ToString(Unwrap(memory_limit)), " bytes">>])
    ELSE None

\* The operations taken last to first.
operations_of_reversed(envelope) ==
    [i \in 1..Len(envelope.operations) |->
        envelope.operations[Len(envelope.operations) + 1 - i]]

operations_of(envelope) == envelope.operations

Ops == operations_of(Req.envelope_xdr.envelope)

-----------------------------------------------------------------------------
(* main.rs: main, up to the dispatcher *)

ReadStdin ==
    /\ pc = "read_stdin"
    /\ \E ok \in BOOLEAN :
        IF ok
        THEN /\ pc' = "parse_request"
             /\ UNCHANGED <<stdout, exit_code>>
        ELSE Emit(BareErrorResponse(<<"Failed to read stdin: ", "io error">>, None), 0)
    /\ UNCHANGED <<request, wasm_rejected, host_constructed, host, loaded_entries_count,
                   op_index, exec_logs, coverage, result, ledger_inputs, result_meta, fee_in, fee_out, vm_in, vm_out, libVars>>

ParseRequest ==
    /\ pc = "parse_request"
    /\ \/ /\ Emit(BareErrorResponse(<<"Invalid JSON: ", "serde error">>, None), 0)
          /\ UNCHANGED request
       \/ /\ \E req \in Requests : request' = Some(req)
          /\ pc' = "decode_envelope"
          /\ UNCHANGED <<stdout, exit_code>>
    /\ UNCHANGED <<wasm_rejected, host_constructed, host, loaded_entries_count,
                   op_index, exec_logs, coverage, result, ledger_inputs, result_meta, fee_in, fee_out, vm_in, vm_out, libVars>>

DecodeEnvelope ==
    /\ pc = "decode_envelope"
    /\ CASE Req.envelope_xdr.decode = "BadBase64" ->
                send_error(<<"Failed to decode Envelope Base64: ", "base64 error">>)
         [] Req.envelope_xdr.decode = "BadXdr" ->
                send_error(<<"Failed to parse Envelope XDR: ", "xdr error">>)
         [] Req.envelope_xdr.decode = "Ok" ->
                /\ pc' = "decode_result_meta"
                /\ UNCHANGED <<stdout, exit_code>>
    /\ UNCHANGED <<request, wasm_rejected, host_constructed, host, loaded_entries_count,
                   op_index, exec_logs, coverage, result, ledger_inputs, result_meta, fee_in, fee_out, vm_in, vm_out, libVars>>

\* TransactionResultMeta::from_xdr: the bytes are a version tag.
TransactionResultMeta_from_xdr(bytes) ==
    IF Len(bytes) = 1 /\ bytes[1] \in {0, 1, 2, 3}
    THEN Ok([v |-> bytes[1]])
    ELSE Err(<<"xdr value invalid">>)

\* Values of request.result_meta_xdr: empty, not base64, base64 of bytes that
\* are no TransactionResultMeta, and a well-formed one.
ResultMetaTexts ==
    {<<>>, <<BadChar>>, base64_encode(JunkBytes), base64_encode(<<3>>)}

\* The value `_result_meta` is bound to (main.rs:371-398).
decode_result_meta(result_meta_xdr) ==
    IF result_meta_xdr = <<>> THEN None
    ELSE LET bytes == base64_decode(result_meta_xdr)
         IN  IF ~bytes.ok THEN None
             ELSE IF bytes.val = <<>> THEN None
             ELSE LET meta == TransactionResultMeta_from_xdr(bytes.val)
                  IN  IF meta.ok THEN Some(meta.val) ELSE None

\* A metadata stage that treats unparseable XDR as fatal.
DecodeResultMeta_strict ==
    /\ pc = "decode_result_meta"
    /\ \E result_meta_xdr \in ResultMetaTexts :
        /\ result_meta' = decode_result_meta(result_meta_xdr)
        /\ IF result_meta_xdr # <<>> /\ base64_decode(result_meta_xdr).ok
              /\ ~TransactionResultMeta_from_xdr(base64_decode(result_meta_xdr).val).ok
           THEN send_error(<<"Failed to parse ResultMeta XDR: ", "xdr value invalid">>)
           ELSE pc' = "load_contract_wasm" /\ UNCHANGED <<stdout, exit_code>>
    /\ UNCHANGED <<request, wasm_rejected, host_constructed, host, loaded_entries_count,
                   op_index, exec_logs, coverage, result,
                   ledger_inputs, fee_in, fee_out, vm_in, vm_out, libVars>>

\* result_meta_xdr is read here and nowhere else; whatever it holds, main goes on.
DecodeResultMeta ==
    /\ pc = "decode_result_meta"
    /\ \E result_meta_xdr \in ResultMetaTexts :
        result_meta' = decode_result_meta(result_meta_xdr)
    /\ pc' = "load_contract_wasm"
    /\ UNCHANGED <<request, wasm_rejected, host_constructed, host, loaded_entries_count,
                   op_index, exec_logs, coverage, result, stdout, exit_code,
                   ledger_inputs, fee_in, fee_out, vm_in, vm_out, libVars>>

\* The validator's verdict is logged and main goes on.
LoadContractWasm_continue ==
    /\ pc = "load_contract_wasm"
    /\ \E contract_wasm \in ContractWasmInputs :
        /\ wasm_rejected' =
              (/\ contract_wasm.given /\ contract_wasm.base64_ok
               /\ ~enforce_soroban_compatibility(contract_wasm.wasm).ok)
        /\ pc' = "init_host"
    /\ UNCHANGED <<request, host_constructed, host, loaded_entries_count, op_index,
                   exec_logs, coverage, result, stdout, exit_code,
                   ledger_inputs, result_meta, fee_in, fee_out, vm_in, vm_out, libVars>>

\* contract_wasm is read here and nowhere else.
LoadContractWasm ==
    /\ pc = "load_contract_wasm"
    /\ \E contract_wasm \in ContractWasmInputs :
        IF contract_wasm.given /\ contract_wasm.base64_ok
        THEN LET r == enforce_soroban_compatibility(contract_wasm.wasm)
             IN  IF ~r.ok
                 THEN /\ wasm_rejected' = TRUE
                      /\ send_error(<<"Strict VM enforcement failed: ">> \o r.err)
                 ELSE /\ pc' = "init_host"
                      /\ UNCHANGED <<wasm_rejected, stdout, exit_code>>
        ELSE /\ pc' = "init_host"
             /\ UNCHANGED <<wasm_rejected, stdout, exit_code>>
    /\ UNCHANGED <<request, host_constructed, host, loaded_entries_count,
                   op_index, exec_logs, coverage, result, ledger_inputs, result_meta, fee_in, fee_out, vm_in, vm_out, libVars>>

InitHost ==
    /\ pc = "init_host"
    /\ host_constructed' = TRUE
    /\ host' = FreshHost
    /\ pc' = "load_wasm_path"
    /\ UNCHANGED <<request, wasm_rejected, loaded_entries_count, op_index, exec_logs,
                   coverage, result, stdout, exit_code, ledger_inputs, result_meta, fee_in, fee_out, vm_in, vm_out, libVars>>

\* wasm_path is read here and nowhere else.
LoadWasmPath ==
    /\ pc = "load_wasm_path"
    /\ \E wasm_path \in {"None", "Loads", "Fails"} :
        IF wasm_path = "Fails"
        THEN send_error(<<"Local WASM loading failed: ", "load error">>)
        ELSE /\ pc' = "populate_storage"
             /\ UNCHANGED <<stdout, exit_code>>
    /\ UNCHANGED <<request, wasm_rejected, host_constructed, host, loaded_entries_count,
                   op_index, exec_logs, coverage, result, ledger_inputs, result_meta, fee_in, fee_out, vm_in, vm_out, libVars>>

\* The message of the first pair that does not decode, None when all decode:
\* STANDARD.decode then from_xdr, for the key and then for the entry.
RECURSIVE first_decode_error(_, _)
first_decode_error(entries, i) ==
    IF i > Len(entries) THEN None
    ELSE LET kb == base64_decode(entries[i].key)
             eb == base64_decode(entries[i].entry)
         IN  IF ~kb.ok
             THEN Some(<<"Failed to decode LedgerKey Base64: ">> \o kb.err)
             ELSE IF ~LedgerKey_from_xdr(kb.val).ok
             THEN Some(<<"Failed to parse LedgerKey XDR: ">> \o LedgerKey_from_xdr(kb.val).err)
             ELSE IF ~eb.ok
             THEN Some(<<"Failed to decode LedgerEntry Base64: ">> \o eb.err)
             ELSE IF ~LedgerEntry_from_xdr(eb.val).ok
             THEN Some(<<"Failed to parse LedgerEntry XDR: ">> \o LedgerEntry_from_xdr(eb.val).err)
             ELSE first_decode_error(entries, i + 1)

\* A storage stage that skips the pairs it cannot decode.
PopulateStorage_lenient ==
    /\ pc = "populate_storage"
    /\ \E ledger_entries \in LedgerEntryInputs, restore_preamble \in RestorePreambles :
        /\ ledger_inputs' = Some([ledger_entries |-> ledger_entries,
                                  restore_preamble |-> restore_preamble])
        /\ loaded_entries_count' = 0
    /\ pc' = "dispatch"
    /\ UNCHANGED <<request, wasm_rejected, host_constructed, host, stdout, exit_code,
                   op_index, exec_logs, coverage, result, result_meta, fee_in, fee_out, vm_in, vm_out, libVars>>

\* ledger_entries is read here and nowhere else (in the map's iteration order);
\* restore_preamble is read nowhere.  Both are drawn here, which is where the
\* storage stage would consume them.  Nothing is put into the host's storage.
PopulateStorage ==
    /\ pc = "populate_storage"
    /\ \E ledger_entries \in LedgerEntryInputs, restore_preamble \in RestorePreambles :
        /\ ledger_inputs' = Some([ledger_entries |-> ledger_entries,
                                  restore_preamble |-> restore_preamble])
        /\ IF IsSome(ledger_entries)
           THEN LET e == first_decode_error(Unwrap(ledger_entries), 1)
                IN  IF IsSome(e)
                    THEN /\ send_error(Unwrap(e))
                         /\ UNCHANGED loaded_entries_count
                    ELSE /\ loaded_entries_count' = Len(Unwrap(ledger_entries))
                         /\ pc' = "dispatch"
                         /\ UNCHANGED <<stdout, exit_code>>
           ELSE /\ pc' = "dispatch"
                /\ UNCHANGED <<loaded_entries_count, stdout, exit_code>>
    /\ UNCHANGED <<request, wasm_rejected, host_constructed, host,
                   op_index, exec_logs, coverage, result, result_meta, fee_in, fee_out, vm_in, vm_out, libVars>>

-----------------------------------------------------------------------------
(* main.rs: execute_operations inside catch_unwind *)

PanicResult(payload) ==
    [kind |-> "Panic", logs |-> <<>>, error |-> <<>>, payload |-> payload]
HostErrorResult(error) ==
    [kind |-> "HostErr", logs |-> <<>>, error |-> error, payload |-> NoPayload]
OkResult(logs) ==
    [kind |-> "Ok", logs |-> logs, error |-> <<>>, payload |-> NoPayload]

\* Entry of execute_operations: the check made before the loop.
BeginDispatch ==
    /\ pc = "dispatch"
    /\ LET p == check_memory_limit_or_panic(host, Req.memory_limit)
       IN  IF IsSome(p)
           THEN /\ result' = PanicResult(Unwrap(p))
                /\ pc' = "report"
           ELSE /\ pc' = "dispatch_loop"
                /\ UNCHANGED result
    /\ UNCHANGED <<request, wasm_rejected, host_constructed, host, loaded_entries_count,
                   op_index, exec_logs, coverage, stdout, exit_code,
                   ledger_inputs, result_meta, fee_in, fee_out, vm_in, vm_out, libVars>>

\* One iteration of the loop over the operations.
ExecuteOperation ==
    /\ pc = "dispatch_loop"
    /\ op_index < Len(Ops)
    /\ LET op == Ops[op_index + 1]
       IN  /\ op_index' = op_index + 1
           /\ coverage' = record_operation(coverage, op)
           /\ IF op.body = "InvokeHostFunction"
              THEN \E o \in InvokeOutcomes :
                    LET h == [host EXCEPT !.events = @ \o o.emitted,
                                          !.cpu = saturating_add(@, o.cpu),
                                          !.mem = saturating_add(@, o.mem),
                                          !.calls = Append(@, op)]
                        p == check_memory_limit_or_panic(h, Req.memory_limit)
                    IN  /\ host' = h
                        /\ CASE o.ret = "Panic" ->
                                    /\ result' = PanicResult(o.payload)
                                    /\ pc' = "report"
                                    /\ exec_logs' =
                                         Append(exec_logs, <<"Executing InvokeHostFunction...">>)
                             [] o.ret = "Err" ->
                                    /\ result' = HostErrorResult(<<"HostError: Error(WasmVm, InvalidAction)">>)
                                    /\ pc' = "report"
                                    /\ exec_logs' =
                                         Append(exec_logs, <<"Executing InvokeHostFunction...">>)
                             [] o.ret = "Ok" ->
                                    /\ exec_logs' = exec_logs \o
                                         << <<"Executing InvokeHostFunction...">>,
                                            <<"Result: ", "Val">> >>
                                    /\ IF IsSome(p)
                                       THEN /\ result' = PanicResult(Unwrap(p))
                                            /\ pc' = "report"
                                       ELSE UNCHANGED <<result, pc>>
              ELSE LET p == check_memory_limit_or_panic(host, Req.memory_limit)
                   IN  /\ exec_logs' = Append(exec_logs,
                                              <<"Skipping non-Soroban operation: ", op.body>>)
                       /\ UNCHANGED host
                       /\ IF IsSome(p)
                          THEN /\ result' = PanicResult(Unwrap(p))
                               /\ pc' = "report"
                          ELSE UNCHANGED <<result, pc>>
    /\ UNCHANGED <<request, wasm_rejected, host_constructed, loaded_entries_count,
                   stdout, exit_code, ledger_inputs, result_meta, fee_in, fee_out, vm_in, vm_out, libVars>>

\* The loop is over: Ok(logs).
FinishDispatch ==
    /\ pc = "dispatch_loop"
    /\ op_index = Len(Ops)
    /\ result' = OkResult(exec_logs)
    /\ pc' = "report"
    /\ UNCHANGED <<request, wasm_rejected, host_constructed, host, loaded_entries_count,
                   op_index, exec_logs, coverage, stdout, exit_code,
                   ledger_inputs, result_meta, fee_in, fee_out, vm_in, vm_out, libVars>>

-----------------------------------------------------------------------------
(* main.rs: budget, reporting and the three arms of `match result` *)

\* operations_count taken from the host functions invoked, not from the envelope.
BudgetUsage_invocations(h) ==
    [cpu_instructions |-> h.cpu, memory_bytes |-> h.mem, operations_count |-> Len(h.calls)]

BudgetUsage(h) ==
    [cpu_instructions |-> h.cpu, memory_bytes |-> h.mem, operations_count |-> Len(Ops)]

\* A report computed whether or not the advisor is enabled.
OptimizationReport_always(h) ==
    Some([cpu_instructions |-> h.cpu, memory_bytes |-> h.mem,
          total_operations |-> Len(Ops)])

OptimizationReport(h) ==
    IF Req.enable_optimization_advisor
    THEN Some([cpu_instructions |-> h.cpu, memory_bytes |-> h.mem,
               total_operations |-> Len(Ops)])
    ELSE None

\* `declared_fee <= required_fee`
fee_insufficient_or_equal(declared_fee, required_fee) == declared_fee <= required_fee

\* `declared_fee < required_fee`
fee_insufficient(declared_fee, required_fee) == declared_fee < required_fee

FailedEventsText == [text |-> "Failed to retrieve events", of |-> None]

\* Ok(Ok(exec_logs)): events are read from the host twice; each read can fail.
EmitOk ==
    /\ pc = "report"
    /\ result.kind = "Ok"
    /\ \E first_read_ok \in BOOLEAN, second_read_ok \in BOOLEAN :
        LET events == IF first_read_ok
                      THEN [i \in 1..Len(host.events) |-> debug_text(host.events[i])]
                      ELSE <<FailedEventsText>>
            diagnostic_events ==
                      IF first_read_ok
                      THEN [i \in 1..Len(host.events) |-> diagnostic_event(host.events[i])]
                      ELSE <<>>
            categorized_events ==
                      IF second_read_ok THEN categorize_events(host.events) ELSE <<>>
            final_logs == << <<"Host Initialized with Budget: ", "Budget">>,
                             <<"Loaded ", ToString(loaded_entries_count), " Ledger Entries">>,
                             <<"Captured ", ToString(Len(diagnostic_events)),
                               " diagnostic events">>,
                             <<"CPU Instructions Used: ", ToString(host.cpu)>>,
                             <<"Memory Bytes Used: ", ToString(host.mem)>> >>
                          \o result.logs
            required == mocked_required_fee_stroops(Req, Len(Ops), host.cpu, host.mem)
            declared_fee == transaction_fee_stroops(Req.envelope_xdr.envelope)
            fee_log == <<"Mock fee check: declared=", ToString(declared_fee),
                         " required=", ToString(Unwrap(required))>>
        IN  IF IsSome(required) /\ fee_insufficient(declared_fee, Unwrap(required))
            THEN Emit(SimulationResponse(
                        "error",
                        Some(<<"insufficient fee (mocked)", ": declared ",
                               ToString(declared_fee), " stroops, required ",
                               ToString(Unwrap(required)), " stroops">>),
                        None, events, diagnostic_events, categorized_events,
                        Append(final_logs, fee_log),
                        OptimizationReport(host), Some(BudgetUsage(host)), None), 0)
            ELSE Emit(SimulationResponse(
                        "success", None, None, events, diagnostic_events,
                        categorized_events,
                        IF IsSome(required) THEN Append(final_logs, fee_log) ELSE final_logs,
                        OptimizationReport(host), Some(BudgetUsage(host)), None), 0)
    /\ UNCHANGED <<request, wasm_rejected, host_constructed, host, loaded_entries_count,
                   op_index, exec_logs, coverage, result, ledger_inputs, result_meta, fee_in, fee_out, vm_in, vm_out, libVars>>

\* Ok(Err(host_error))
EmitHostError ==
    /\ pc = "report"
    /\ result.kind = "HostErr"
    /\ Emit(SimulationResponse(
              "error",
              Some(<<"{\"error_type\":\"HostError\",\"message\":">> \o result.error),
              None, <<>>, <<>>, <<>>,
              << <<"Stack trace:\n", "Trap">> >>,
              None, None,
              Some([origin |-> "from_host_error", raw_message |-> result.error])), 0)
    /\ UNCHANGED <<request, wasm_rejected, host_constructed, host, loaded_entries_count,
                   op_index, exec_logs, coverage, result, ledger_inputs, result_meta, fee_in, fee_out, vm_in, vm_out, libVars>>

\* The message main extracts from the payload of a caught panic.
panic_message(payload) ==
    IF payload.type \in {"str", "String"} THEN payload.msg ELSE <<"Unknown panic">>

\* The test made against the message of SimHost::check_memory_limit instead.
memory_limit_exceeded_prefix(panic_msg) == StartsWith(panic_msg, "Memory limit exceeded: ")

\* panic_msg.contains(ERR_MEMORY_LIMIT_EXCEEDED)
memory_limit_exceeded(panic_msg) == Contains(panic_msg, ERR_MEMORY_LIMIT_EXCEEDED)

\* The panic is not caught: the process dies with status 101, nothing printed.
EmitPanic_abort ==
    /\ pc = "report"
    /\ result.kind = "Panic"
    /\ pc' = "exited"
    /\ exit_code' = 101
    /\ UNCHANGED <<request, wasm_rejected, host_constructed, host, loaded_entries_count,
                   op_index, exec_logs, coverage, result, stdout,
                   ledger_inputs, result_meta, fee_in, fee_out, vm_in, vm_out, libVars>>

\* Err(panic_info)
EmitPanic ==
    /\ pc = "report"
    /\ result.kind = "Panic"
    /\ LET panic_msg == panic_message(result.payload)
       IN  Emit(SimulationResponse(
                  "error",
                  Some(IF memory_limit_exceeded(panic_msg)
                       THEN panic_msg
                       ELSE <<"Simulator panicked: ">> \o panic_msg),
                  IF memory_limit_exceeded(panic_msg)
                  THEN Some(ERR_MEMORY_LIMIT_EXCEEDED) ELSE None,
                  <<>>, <<>>, <<>>,
                  << <<"PANIC: ">> \o panic_msg >>,
                  None, None,
                  Some([origin |-> "from_panic", raw_message |-> panic_msg])), 0)
    /\ UNCHANGED <<request, wasm_rejected, host_constructed, host, loaded_entries_count,
                   op_index, exec_logs, coverage, result, ledger_inputs, result_meta, fee_in, fee_out, vm_in, vm_out, libVars>>

-----------------------------------------------------------------------------
(* The simulator process *)

MainInit ==
    /\ pc = "read_stdin"
    /\ request = None
    /\ wasm_rejected = FALSE
    /\ host_constructed = FALSE
    /\ host = FreshHost
    /\ result_meta = None
    /\ ledger_inputs = None
    /\ loaded_entries_count = 0
    /\ op_index = 0
    /\ exec_logs = <<>>
    /\ coverage = [l \in FunctionLabels |-> 0]
    /\ result = NoResult
    /\ stdout = <<>>
    /\ exit_code = -1

FeeIdle == fee_in = None /\ fee_out = None
VmIdle == vm_in = None /\ vm_out = None
MapperIdle == mapper = None /\ map_out = None
SnapshotIdle == snapshot = None /\ snapshot_out = None
CacheIdle == cache_files = EmptyMap /\ stored_entries = EmptyMap /\ cache_out = None
TrapIdle == trap_in = None /\ trap_out = None
LcovIdle == lcov_in = None /\ lcov_out = None
WipeIdle == sim_host = None /\ wipe_out = None
LineIdle == line_in = None /\ line_out = None
RaceIdle == race_file = None /\ race_procs = None
ExtLibIdle == LcovIdle /\ WipeIdle /\ LineIdle /\ RaceIdle
LibIdle == MapperIdle /\ SnapshotIdle /\ CacheIdle /\ TrapIdle /\ ExtLibIdle

PureIdle == FeeIdle /\ VmIdle /\ LibIdle

Init == MainInit /\ PureIdle

Next ==
    \/ ReadStdin
    \/ ParseRequest
    \/ DecodeEnvelope
    \/ DecodeResultMeta
    \/ LoadContractWasm
    \/ InitHost
    \/ LoadWasmPath
    \/ PopulateStorage
    \/ BeginDispatch
    \/ ExecuteOperation
    \/ FinishDispatch
    \/ EmitOk
    \/ EmitHostError
    \/ EmitPanic

Spec == Init /\ [][Next]_vars

-----------------------------------------------------------------------------
(* mocked_required_fee_stroops as a function of its arguments *)

FeeInputs ==
    [mock_base_fee : {None, Some(0), Some(100), Some(U32Max)},
     mock_gas_price : {None, Some(0), Some(1), Some(50), Some(U64Max)},
     operations_count : 0..MaxOps,
     cpu_insns : {0, 1, 10000, 10001, U64Max - 9999, U64Max - 9998, U64Max},
     mem_bytes : {0, 1, 1024, 1025, U64Max - 1023, U64Max - 1022, U64Max}]

FeeInit ==
    /\ MainInit
    /\ fee_in \in {Some(i) : i \in FeeInputs}
    /\ fee_out = None
    /\ VmIdle /\ LibIdle

ComputeFee ==
    /\ IsSome(fee_in)
    /\ fee_out = None
    /\ fee_out' = Some(mocked_required_fee_stroops(Unwrap(fee_in),
                                                   Unwrap(fee_in).operations_count,
                                                   Unwrap(fee_in).cpu_insns,
                                                   Unwrap(fee_in).mem_bytes))
    /\ UNCHANGED <<mainVars, fee_in, vm_in, vm_out, libVars>>

FeeNext == ComputeFee

FeeSpec == FeeInit /\ [][FeeNext]_vars

-----------------------------------------------------------------------------
(* enforce_soroban_compatibility as a function of the module *)

\* Operators a function body is drawn from: an integer operator, operators
\* is_float_op lists, SIMD floating-point operators it does not list, and bytes
\* that are no operator.
OperatorSamples ==
    {"I32Add", "F32Add", "F64Const", "I32TruncSatF64U",
     "F32x4Add", "F64x2Mul", "I32x4TruncSatF32x4S", InvalidOperator}

Payloads ==
    {OtherSection, MalformedPayload}
    \cup {CodeEntry(ops) : ops \in SeqsUpTo(OperatorSamples, MaxBodyLen)}

Modules == SeqsUpTo(Payloads, MaxBodies)

VmInit ==
    /\ MainInit
    /\ vm_in \in {Some(m) : m \in Modules}
    /\ vm_out = None
    /\ FeeIdle /\ LibIdle

Validate ==
    /\ IsSome(vm_in)
    /\ vm_out = None
    /\ vm_out' = Some(enforce_soroban_compatibility(Unwrap(vm_in)))
    /\ UNCHANGED <<mainVars, fee_in, fee_out, vm_in, libVars>>

VmNext == Validate

VmSpec == VmInit /\ [][VmNext]_vars

-----------------------------------------------------------------------------
(* source_mapper.rs, git_detector.rs: the source mapper *)

\* A WASM binary as the mapper sees it: whether object::File::parse accepts
\* it, which debug sections it has, and the intervals its line program yields
\* in the order extract_line_entries pushes them.
WasmObject(parses, debug_info, debug_line, intervals) ==
    [parses |-> parses, debug_info |-> debug_info, debug_line |-> debug_line,
     intervals |-> intervals]

check_debug_symbols(wasm_bytes) ==
    IF wasm_bytes.parses
    THEN wasm_bytes.debug_info /\ wasm_bytes.debug_line
    ELSE FALSE

SourceLocation(file, line, column, column_end, github_link) ==
    [file |-> file, line |-> line, column |-> column, column_end |-> column_end,
     github_link |-> github_link]

CachedLineEntry(start, end, location) ==
    [start |-> start, end |-> end, location |-> location]

\* Vec::sort_by_key(|entry| entry.start): a stable sort, here by insertion.
RECURSIVE insert_by_start(_, _)
insert_by_start(sorted, entry) ==
    IF sorted = <<>> THEN <<entry>>
    ELSE IF sorted[Len(sorted)].start <= entry.start THEN Append(sorted, entry)
    ELSE Append(insert_by_start(SubSeq(sorted, 1, Len(sorted) - 1), entry),
                sorted[Len(sorted)])

RECURSIVE sort_by_start(_)
sort_by_start(entries) ==
    IF entries = <<>> THEN <<>>
    ELSE insert_by_start(sort_by_start(SubSeq(entries, 1, Len(entries) - 1)),
                         entries[Len(entries)])

\* The dedup that keeps the first entry of a start instead of the last.
RECURSIVE dedupe_keep_first(_)
dedupe_keep_first(entries) ==
    IF entries = <<>> THEN <<>>
    ELSE LET deduped == dedupe_keep_first(SubSeq(entries, 1, Len(entries) - 1))
             entry == entries[Len(entries)]
         IN  IF deduped # <<>> /\ deduped[Len(deduped)].start = entry.start
             THEN deduped
             ELSE Append(deduped, entry)

RECURSIVE dedupe_same_address_entries(_)
dedupe_same_address_entries(entries) ==
    IF entries = <<>> THEN <<>>
    ELSE LET deduped == dedupe_same_address_entries(SubSeq(entries, 1, Len(entries) - 1))
             entry == entries[Len(entries)]
         IN  IF deduped # <<>> /\ deduped[Len(deduped)].start = entry.start
             THEN [deduped EXCEPT ![Len(deduped)] = entry]
             ELSE Append(deduped, entry)

\* build_line_cache(..).unwrap_or_default(): the intervals sorted and deduped.
build_line_cache(wasm_bytes) ==
    dedupe_same_address_entries(sort_by_start(wasm_bytes.intervals))

\* GitRepository: remote_url, commit_hash and root_path (path components).
GitHubRepo ==
    [remote_url |-> <<"https://", "github.com", "/dotandev/hintents">>,
     commit_hash |-> "abc123", root_path |-> <<"repo">>]
OtherRepo ==
    [remote_url |-> <<"https://", "gitlab.com", "/dotandev/hintents">>,
     commit_hash |-> "abc123", root_path |-> <<"repo">>]

is_github(repo) == Contains(repo.remote_url, "github.com")

\* Path::strip_prefix on component sequences
strip_prefix(path, root) ==
    IF Len(path) >= Len(root) /\ SubSeq(path, 1, Len(root)) = root
    THEN Some(SubSeq(path, Len(root) + 1, Len(path)))
    ELSE None

make_relative_path(repo, file_path) ==
    IF file_path.absolute
    THEN strip_prefix(file_path.components, repo.root_path)
    ELSE Some(file_path.components)

generate_file_link(repo, file_path, line) ==
    IF ~is_github(repo) THEN None
    ELSE LET relative_path == make_relative_path(repo, file_path)
         IN  IF ~IsSome(relative_path) THEN None
             ELSE Some(repo.remote_url \o <<"/blob/", repo.commit_hash, "/">>
                       \o Unwrap(relative_path) \o <<"#L", ToString(line)>>)

new_with_options(wasm_bytes, git_repo) ==
    LET has_symbols == check_debug_symbols(wasm_bytes)
    IN  [has_symbols |-> has_symbols,
         line_cache |-> IF has_symbols THEN build_line_cache(wasm_bytes) ELSE <<>>,
         git_repo |-> git_repo,
         wasm |-> wasm_bytes]

\* slice::binary_search_by_key over entry.start, on the half-open range
\* [lo, hi) of zero-based indices: found at an index, or the insertion point.
RECURSIVE binary_search_by_key(_, _, _, _)
binary_search_by_key(line_cache, key, lo, hi) ==
    IF lo >= hi THEN [found |-> FALSE, index |-> lo]
    ELSE LET mid == lo + ((hi - lo) \div 2)
         IN  IF line_cache[mid + 1].start = key THEN [found |-> TRUE, index |-> mid]
             ELSE IF line_cache[mid + 1].start < key
                  THEN binary_search_by_key(line_cache, key, mid + 1, hi)
                  ELSE binary_search_by_key(line_cache, key, lo, mid)

past_range_end_exclusive(entry, wasm_offset) ==
    IsSome(entry.end) /\ wasm_offset > Unwrap(entry.end)

\* `if let Some(end) = entry.end { if wasm_offset >= end { return None } }`
past_range_end(entry, wasm_offset) ==
    IsSome(entry.end) /\ wasm_offset >= Unwrap(entry.end)

map_wasm_offset_to_source(m, wasm_offset) ==
    IF ~m.has_symbols \/ m.line_cache = <<>> THEN None
    ELSE LET r == binary_search_by_key(m.line_cache, wasm_offset, 0, Len(m.line_cache))
         IN  IF ~r.found /\ r.index = 0 THEN None
             ELSE LET idx == IF r.found THEN r.index ELSE r.index - 1
                      entry == m.line_cache[idx + 1]
                  IN  IF past_range_end(entry, wasm_offset) THEN None
                      ELSE IF IsSome(m.git_repo)
                           THEN Some([entry.location EXCEPT !.github_link =
                                        generate_file_link(Unwrap(m.git_repo),
                                                           entry.location.file,
                                                           entry.location.line)])
                           ELSE Some(entry.location)

\* Source files named by the line program.
RelativeFile == [absolute |-> FALSE, components |-> <<"src", "lib.rs">>]
RepoFile == [absolute |-> TRUE, components |-> <<"repo", "src", "token.rs">>]
OutsideFile == [absolute |-> TRUE, components |-> <<"cargo", "registry", "sdk.rs">>]

IntervalStarts == {1, 3, 5}

FileAt(start) ==
    IF start = 1 THEN RelativeFile ELSE IF start = 3 THEN RepoFile ELSE OutsideFile

\* Intervals a line program yields: open, closed before the next start, and
\* closed beyond it.  The line tells the intervals of one start apart.
Intervals ==
    {CachedLineEntry(start, None,
                     SourceLocation(FileAt(start), 10 * start, Some(1), None, None))
        : start \in IntervalStarts}
    \cup {CachedLineEntry(start, Some(start + 1),
                     SourceLocation(FileAt(start), 10 * start + 1, None, None, None))
        : start \in IntervalStarts}
    \cup {CachedLineEntry(start, Some(start + 3),
                     SourceLocation(FileAt(start), 10 * start + 3, Some(2), None, None))
        : start \in IntervalStarts}

WasmObjects ==
    {WasmObject(TRUE, TRUE, TRUE, rows) : rows \in SeqsUpTo(Intervals, MaxRows)}
    \cup {WasmObject(FALSE, FALSE, FALSE, <<>>)}
    \cup {WasmObject(TRUE, i, l, <<>>) : i, l \in BOOLEAN}

GitRepositories == {None, Some(GitHubRepo), Some(OtherRepo)}

WasmOffsets == 0..9

MapperInit ==
    /\ MainInit
    /\ FeeIdle /\ VmIdle /\ SnapshotIdle /\ CacheIdle /\ TrapIdle /\ ExtLibIdle
    /\ mapper \in {Some(new_with_options(w, g)) : w \in WasmObjects, g \in GitRepositories}
    /\ map_out = None

MapOffset ==
    /\ IsSome(mapper)
    /\ \E wasm_offset \in WasmOffsets :
          map_out' = Some([wasm_offset |-> wasm_offset,
                           location |-> map_wasm_offset_to_source(Unwrap(mapper),
                                                                  wasm_offset)])
    /\ UNCHANGED <<mainVars, fee_in, fee_out, vm_in, vm_out, mapper, snapshotVars, cacheVars, trapVars, extLibVars>>

MapperNext == MapOffset

MapperSpec == MapperInit /\ [][MapperNext]_vars

-----------------------------------------------------------------------------
(* LedgerSnapshot driven through new, from_base64_map and insert *)

SnapshotInit ==
    /\ MainInit
    /\ FeeIdle /\ VmIdle /\ MapperIdle /\ CacheIdle /\ TrapIdle /\ ExtLibIdle
    /\ SnapshotIdle

SnapshotNew ==
    /\ snapshot' = Some(LedgerSnapshot_new)
    /\ UNCHANGED <<mainVars, fee_in, fee_out, vm_in, vm_out, mapperVars, cacheVars, trapVars, extLibVars, snapshot_out>>

SnapshotFromBase64Map ==
    /\ \E entries \in Base64Maps :
          LET r == from_base64_map(entries)
          IN  /\ snapshot_out' = Some([entries |-> entries, result |-> r])
              /\ snapshot' = IF r.ok THEN Some(r.val) ELSE snapshot
    /\ UNCHANGED <<mainVars, fee_in, fee_out, vm_in, vm_out, mapperVars, cacheVars, trapVars, extLibVars>>

SnapshotInsert ==
    /\ IsSome(snapshot)
    /\ \E key \in KeyBytes, entry \in LedgerEntries :
          snapshot' = Some(insert(Unwrap(snapshot), key, entry))
    /\ UNCHANGED <<mainVars, fee_in, fee_out, vm_in, vm_out, mapperVars, cacheVars, trapVars, extLibVars, snapshot_out>>

SnapshotNext ==
    \/ SnapshotNew
    \/ SnapshotFromBase64Map
    \/ SnapshotInsert

SnapshotSpec == SnapshotInit /\ [][SnapshotNext]_vars

-----------------------------------------------------------------------------
(* source_map_cache.rs: the on-disk cache and its bincode encoding *)

\* bincode with fixed-width integers.  The widths are scaled: a u64 takes two
\* little-endian bytes and a u32 one (eight and four in the code).
u64_bytes(n) == <<n % 256, (n \div 256) % 256>>
u32_bytes(n) == <<n % 256>>
bool_bytes(b) == IF b THEN <<1>> ELSE <<0>>
string_bytes(str) == u64_bytes(Len(str)) \o str
option_u32_bytes(o) == IF IsSome(o) THEN <<1>> \o u32_bytes(Unwrap(o)) ELSE <<0>>
option_string_bytes(o) == IF IsSome(o) THEN <<1>> \o string_bytes(Unwrap(o)) ELSE <<0>>

\* Serialize for SourceLocation: github_link carries
\* skip_serializing_if = "Option::is_none", so a None writes nothing.
location_bytes(location) ==
    string_bytes(location.file)
    \o u32_bytes(location.line)
    \o option_u32_bytes(location.column)
    \o option_u32_bytes(location.column_end)
    \o (IF location.github_link = None THEN <<>>
        ELSE option_string_bytes(location.github_link))

\* The pairs of a HashMap<u64, SourceLocation>, in the order `order` visits
\* its keys.
RECURSIVE mappings_bytes(_, _, _)
mappings_bytes(mappings, order, i) ==
    IF i > Len(order) THEN <<>>
    ELSE u64_bytes(order[i]) \o location_bytes(mappings[order[i]])
         \o mappings_bytes(mappings, order, i + 1)

\* bincode::serialize(&entry)
bincode_serialize(entry, order) ==
    string_bytes(entry.wasm_hash)
    \o bool_bytes(entry.has_symbols)
    \o u64_bytes(Len(order)) \o mappings_bytes(entry.mappings, order, 1)
    \o u64_bytes(entry.created_at)

\* Readers: the value read at position pos of the bytes and the position after
\* it, or a failure.
ReadOk(v, next) == [ok |-> TRUE, val |-> v, pos |-> next]
ReadErr == [ok |-> FALSE, val |-> <<>>, pos |-> 0]

read_u8(bytes, pos) ==
    IF pos > Len(bytes) THEN ReadErr ELSE ReadOk(bytes[pos], pos + 1)

read_u64(bytes, pos) ==
    IF pos + 1 > Len(bytes) THEN ReadErr
    ELSE ReadOk(bytes[pos] + 256 * bytes[pos + 1], pos + 2)

read_u32(bytes, pos) == read_u8(bytes, pos)

read_bool(bytes, pos) ==
    LET tag == read_u8(bytes, pos)
    IN  IF ~tag.ok THEN ReadErr
        ELSE IF tag.val = 0 THEN ReadOk(FALSE, tag.pos)
        ELSE IF tag.val = 1 THEN ReadOk(TRUE, tag.pos)
        ELSE ReadErr

read_string(bytes, pos) ==
    LET len == read_u64(bytes, pos)
    IN  IF ~len.ok THEN ReadErr
        ELSE IF len.pos + len.val - 1 > Len(bytes) THEN ReadErr
        ELSE ReadOk(SubSeq(bytes, len.pos, len.pos + len.val - 1), len.pos + len.val)

read_option_u32(bytes, pos) ==
    LET tag == read_u8(bytes, pos)
    IN  IF ~tag.ok THEN ReadErr
        ELSE IF tag.val = 0 THEN ReadOk(None, tag.pos)
        ELSE IF tag.val = 1
             THEN LET v == read_u32(bytes, tag.pos)
                  IN  IF v.ok THEN ReadOk(Some(v.val), v.pos) ELSE ReadErr
        ELSE ReadErr

read_option_string(bytes, pos) ==
    LET tag == read_u8(bytes, pos)
    IN  IF ~tag.ok THEN ReadErr
        ELSE IF tag.val = 0 THEN ReadOk(None, tag.pos)
        ELSE IF tag.val = 1
             THEN LET v == read_string(bytes, tag.pos)
                  IN  IF v.ok THEN ReadOk(Some(v.val), v.pos) ELSE ReadErr
        ELSE ReadErr

\* Deserialize for SourceLocation: the five fields in order, github_link
\* included.
read_location(bytes, pos) ==
    LET file == read_string(bytes, pos)
    IN  IF ~file.ok THEN ReadErr ELSE
    LET line == read_u32(bytes, file.pos)
    IN  IF ~line.ok THEN ReadErr ELSE
    LET column == read_option_u32(bytes, line.pos)
    IN  IF ~column.ok THEN ReadErr ELSE
    LET column_end == read_option_u32(bytes, column.pos)
    IN  IF ~column_end.ok THEN ReadErr ELSE
    LET github_link == read_option_string(bytes, column_end.pos)
    IN  IF ~github_link.ok THEN ReadErr
        ELSE ReadOk(SourceLocation(file.val, line.val, column.val, column_end.val,
                                   github_link.val),
                    github_link.pos)

RECURSIVE read_mappings(_, _, _, _)
read_mappings(bytes, pos, remaining, mappings) ==
    IF remaining = 0 THEN ReadOk(mappings, pos)
    ELSE LET key == read_u64(bytes, pos)
         IN  IF ~key.ok THEN ReadErr ELSE
         LET location == read_location(bytes, key.pos)
         IN  IF ~location.ok THEN ReadErr
             ELSE read_mappings(bytes, location.pos, remaining - 1,
                                map_insert(mappings, key.val, location.val))

SourceMapCacheEntry(wasm_hash, has_symbols, mappings, created_at) ==
    [wasm_hash |-> wasm_hash, has_symbols |-> has_symbols, mappings |-> mappings,
     created_at |-> created_at]

\* bincode::deserialize::<SourceMapCacheEntry>(&bytes); bytes left over are
\* allowed.
bincode_deserialize(bytes) ==
    LET wasm_hash == read_string(bytes, 1)
    IN  IF ~wasm_hash.ok THEN ReadErr ELSE
    LET has_symbols == read_bool(bytes, wasm_hash.pos)
    IN  IF ~has_symbols.ok THEN ReadErr ELSE
    LET count == read_u64(bytes, has_symbols.pos)
    IN  IF ~count.ok THEN ReadErr ELSE
    LET mappings == read_mappings(bytes, count.pos, count.val, EmptyMap)
    IN  IF ~mappings.ok THEN ReadErr ELSE
    LET created_at == read_u64(bytes, mappings.pos)
    IN  IF ~created_at.ok THEN ReadErr
        ELSE ReadOk(SourceMapCacheEntry(wasm_hash.val, has_symbols.val, mappings.val,
                                        created_at.val),
                    created_at.pos)

\* SourceMapCache::get: the file <hash>.bin, deserialized.
get(files, wasm_hash) ==
    IF wasm_hash \notin DOMAIN files THEN None
    ELSE LET entry == bincode_deserialize(files[wasm_hash])
         IN  IF entry.ok THEN Some(entry.val) ELSE None

\* SourceMapCache::store: the file <entry.wasm_hash>.bin, created or truncated.
store(files, entry, order) ==
    map_insert(files, entry.wasm_hash, bincode_serialize(entry, order))

\* SourceMapCache::clear: every .bin file removed; the count of them.
clear(files) == [files |-> EmptyMap, count |-> Cardinality(DOMAIN files)]

CachedEntryInfo(cache_entry, file_size) ==
    [wasm_hash |-> cache_entry.wasm_hash, has_symbols |-> cache_entry.has_symbols,
     mappings_count |-> Cardinality(DOMAIN cache_entry.mappings),
     created_at |-> cache_entry.created_at, file_size |-> file_size]

\* SourceMapCache::list_cached: one info per .bin file that deserializes.
list_cached(files) ==
    {CachedEntryInfo(bincode_deserialize(files[h]).val, Len(files[h]))
        : h \in {k \in DOMAIN files : bincode_deserialize(files[k]).ok}}

\* WASM binaries whose source maps are cached, and their SHA-256 digests (two
\* characters here, sixty-four in the code; distinct binaries, distinct digests).
HeaderOnlyWasm == WasmObject(TRUE, FALSE, FALSE, <<>>)
SymbolWasm == WasmObject(TRUE, TRUE, TRUE, <<>>)
CachedWasms == {HeaderOnlyWasm, SymbolWasm}

compute_wasm_hash(wasm_bytes) ==
    <<IF wasm_bytes.debug_info THEN 97 ELSE 98, IF wasm_bytes.debug_line THEN 99 ELSE 100>>

WasmHashes == {compute_wasm_hash(w) : w \in CachedWasms}

\* Source locations as the mapper produces them (no link) and as a caller may
\* enrich them.
PlainLocation == SourceLocation(<<116>>, 42, Some(10), None, None)
LinkedLocation == SourceLocation(<<116>>, 42, Some(10), None, Some(<<103>>))

\* HashMap<u64, SourceLocation> values an entry carries.
MappingSets ==
    {EmptyMap,
     map_insert(EmptyMap, 4660, PlainLocation),
     map_insert(EmptyMap, 4660, LinkedLocation),
     map_insert(map_insert(EmptyMap, 0, PlainLocation), 1, PlainLocation)}

CacheEntries ==
    {SourceMapCacheEntry(h, s, m, c) :
        h \in WasmHashes, s \in BOOLEAN, m \in MappingSets, c \in {0, 1234}}

\* The orders in which a HashMap may visit the keys of `mappings`.
IterationOrders(mappings) ==
    {order \in [1..Cardinality(DOMAIN mappings) -> DOMAIN mappings] :
        \A i, j \in DOMAIN order : i # j => order[i] # order[j]}

CacheCall(op, wasm_hash, entry, count, listed) ==
    [op |-> op, wasm_hash |-> wasm_hash, entry |-> entry, count |-> count,
     listed |-> listed]

CacheInit ==
    /\ MainInit
    /\ FeeIdle /\ VmIdle /\ MapperIdle /\ SnapshotIdle /\ TrapIdle /\ ExtLibIdle
    /\ CacheIdle

CacheStore ==
    /\ \E entry \in CacheEntries : \E order \in IterationOrders(entry.mappings) :
          /\ cache_files' = store(cache_files, entry, order)
          /\ stored_entries' = map_insert(stored_entries, entry.wasm_hash, entry)
          /\ cache_out' = Some(CacheCall("store", entry.wasm_hash, None, 0, {}))
    /\ UNCHANGED <<mainVars, fee_in, fee_out, vm_in, vm_out, mapperVars, snapshotVars, trapVars, extLibVars>>

CacheGet ==
    /\ \E wasm_hash \in WasmHashes :
          cache_out' = Some(CacheCall("get", wasm_hash, get(cache_files, wasm_hash), 0, {}))
    /\ UNCHANGED <<mainVars, fee_in, fee_out, vm_in, vm_out, mapperVars, snapshotVars, trapVars, extLibVars,
                   cache_files, stored_entries>>

CacheClear ==
    /\ cache_files' = clear(cache_files).files
    /\ stored_entries' = EmptyMap
    /\ cache_out' = Some(CacheCall("clear", <<>>, None, clear(cache_files).count, {}))
    /\ UNCHANGED <<mainVars, fee_in, fee_out, vm_in, vm_out, mapperVars, snapshotVars, trapVars, extLibVars>>

CacheListCached ==
    /\ cache_out' = Some(CacheCall("list_cached", <<>>, None, 0, list_cached(cache_files)))
    /\ UNCHANGED <<mainVars, fee_in, fee_out, vm_in, vm_out, mapperVars, snapshotVars, trapVars, extLibVars,
                   cache_files, stored_entries>>

CacheNext ==
    \/ CacheStore
    \/ CacheGet
    \/ CacheClear
    \/ CacheListCached

CacheSpec == CacheInit /\ [][CacheNext]_vars

-----------------------------------------------------------------------------
(* stack_trace.rs: classification of a raw trap message *)

\* A raw message is a sequence of characters, so that to_lowercase and
\* contains work on the letters themselves.
char_to_lowercase(c) ==
    LET upper == <<"A", "B", "C", "D", "E", "F", "G", "H", "I", "J", "K", "L", "M",
                   "N", "O", "P", "Q", "R", "S", "T", "U", "V", "W", "X", "Y", "Z">>
        lower == <<"a", "b", "c", "d", "e", "f", "g", "h", "i", "j", "k", "l", "m",
                   "n", "o", "p", "q", "r", "s", "t", "u", "v", "w", "x", "y", "z">>
    IN  IF \E i \in 1..Len(upper) : upper[i] = c
        THEN lower[CHOOSE i \in 1..Len(upper) : upper[i] = c]
        ELSE c

to_lowercase(s) == [i \in 1..Len(s) |-> char_to_lowercase(s[i])]

contains(s, pat) ==
    \E i \in 0..(Len(s) - Len(pat)) : SubSeq(s, i + 1, i + Len(pat)) = pat

\* The string literals of classify_trap, character by character.
TrapLiterals ==
    [
    out_of_bounds_memory |->
        <<"o", "u", "t", " ", "o", "f", " ", "b", "o", "u", "n", "d", "s", " ", "m", "e",
          "m", "o", "r", "y">>,
    out_of_bounds_table |->
        <<"o", "u", "t", " ", "o", "f", " ", "b", "o", "u", "n", "d", "s", " ", "t", "a",
          "b", "l", "e">>,
    integer_overflow |->
        <<"i", "n", "t", "e", "g", "e", "r", " ", "o", "v", "e", "r", "f", "l", "o", "w">>,
    integer_division_by_zero |->
        <<"i", "n", "t", "e", "g", "e", "r", " ", "d", "i", "v", "i", "s", "i", "o", "n",
          " ", "b", "y", " ", "z", "e", "r", "o">>,
    division_by_zero |->
        <<"d", "i", "v", "i", "s", "i", "o", "n", " ", "b", "y", " ", "z", "e", "r", "o">>,
    invalid_conversion_to_int |->
        <<"i", "n", "v", "a", "l", "i", "d", " ", "c", "o", "n", "v", "e", "r", "s", "i",
          "o", "n", " ", "t", "o", " ", "i", "n", "t">>,
    unreachable |->
        <<"u", "n", "r", "e", "a", "c", "h", "a", "b", "l", "e">>,
    call_stack_exhausted |->
        <<"c", "a", "l", "l", " ", "s", "t", "a", "c", "k", " ", "e", "x", "h", "a", "u",
          "s", "t", "e", "d">>,
    stack_overflow |->
        <<"s", "t", "a", "c", "k", " ", "o", "v", "e", "r", "f", "l", "o", "w">>,
    indirect_call_type_mismatch |->
        <<"i", "n", "d", "i", "r", "e", "c", "t", " ", "c", "a", "l", "l", " ", "t", "y",
          "p", "e", " ", "m", "i", "s", "m", "a", "t", "c", "h">>,
    undefined_element |->
        <<"u", "n", "d", "e", "f", "i", "n", "e", "d", " ", "e", "l", "e", "m", "e", "n",
          "t">>,
    uninitialized_element |->
        <<"u", "n", "i", "n", "i", "t", "i", "a", "l", "i", "z", "e", "d", " ", "e", "l",
          "e", "m", "e", "n", "t">>,
    hosterror |->
        <<"h", "o", "s", "t", "e", "r", "r", "o", "r">>,
    host_error |->
        <<"h", "o", "s", "t", " ", "e", "r", "r", "o", "r">>
    ]

\* enum TrapKind: HostError and Unknown carry a message, the other variants none.
TrapKind(kind, msg) == [kind |-> kind, msg |-> msg]

\* classify_trap with the host-error test moved to the front of the chain.
classify_trap_host_error_first(msg) ==
    LET lower == to_lowercase(msg)
        L == TrapLiterals
    IN  IF contains(lower, L.hosterror) \/ contains(lower, L.host_error)
        THEN TrapKind("HostError", Some(msg))
        ELSE IF contains(lower, L.out_of_bounds_memory)
        THEN TrapKind("OutOfBoundsMemoryAccess", None)
        ELSE IF contains(lower, L.out_of_bounds_table)
        THEN TrapKind("OutOfBoundsTableAccess", None)
        ELSE IF contains(lower, L.integer_overflow)
        THEN TrapKind("IntegerOverflow", None)
        ELSE IF contains(lower, L.integer_division_by_zero)
                \/ contains(lower, L.division_by_zero)
        THEN TrapKind("IntegerDivisionByZero", None)
        ELSE IF contains(lower, L.invalid_conversion_to_int)
        THEN TrapKind("InvalidConversionToInt", None)
        ELSE IF contains(lower, L.unreachable)
        THEN TrapKind("Unreachable", None)
        ELSE IF contains(lower, L.call_stack_exhausted) \/ contains(lower, L.stack_overflow)
        THEN TrapKind("StackOverflow", None)
        ELSE IF contains(lower, L.indirect_call_type_mismatch)
        THEN TrapKind("IndirectCallTypeMismatch", None)
        ELSE IF contains(lower, L.undefined_element)
                \/ contains(lower, L.uninitialized_element)
        THEN TrapKind("UndefinedElement", None)
        ELSE TrapKind("Unknown", Some(msg))

classify_trap(msg) ==
    LET lower == to_lowercase(msg)
        L == TrapLiterals
    IN  IF contains(lower, L.out_of_bounds_memory)
        THEN TrapKind("OutOfBoundsMemoryAccess", None)
        ELSE IF contains(lower, L.out_of_bounds_table)
        THEN TrapKind("OutOfBoundsTableAccess", None)
        ELSE IF contains(lower, L.integer_overflow)
        THEN TrapKind("IntegerOverflow", None)
        ELSE IF contains(lower, L.integer_division_by_zero)
                \/ contains(lower, L.division_by_zero)
        THEN TrapKind("IntegerDivisionByZero", None)
        ELSE IF contains(lower, L.invalid_conversion_to_int)
        THEN TrapKind("InvalidConversionToInt", None)
        ELSE IF contains(lower, L.unreachable)
        THEN TrapKind("Unreachable", None)
        ELSE IF contains(lower, L.call_stack_exhausted) \/ contains(lower, L.stack_overflow)
        THEN TrapKind("StackOverflow", None)
        ELSE IF contains(lower, L.indirect_call_type_mismatch)
        THEN TrapKind("IndirectCallTypeMismatch", None)
        ELSE IF contains(lower, L.undefined_element)
                \/ contains(lower, L.uninitialized_element)
        THEN TrapKind("UndefinedElement", None)
        ELSE IF contains(lower, L.hosterror) \/ contains(lower, L.host_error)
        THEN TrapKind("HostError", Some(msg))
        ELSE TrapKind("Unknown", Some(msg))

\* Raw messages: an optional prefix, a first text and an optional second text.
\* The texts are the markers themselves, the messages of the tests, markers in
\* other letter cases, and texts that hold only part of a marker.
MessageHeads ==
    LET
        WasmTrapPrefix ==
            <<"E", "r", "r", "o", "r", ":", " ", "W", "a", "s", "m", " ", "T", "r", "a", "p",
              ":", " ">>
        LowerTrapPrefix ==
            <<"w", "a", "s", "m", " ", "t", "r", "a", "p", ":", " ">>
    IN  {<<>>, WasmTrapPrefix, LowerTrapPrefix}

MessageBodies ==
    LET
        MemoryAccessText ==
            <<"o", "u", "t", " ", "o", "f", " ", "b", "o", "u", "n", "d", "s", " ", "m", "e",
              "m", "o", "r", "y", " ", "a", "c", "c", "e", "s", "s">>
        HostErrorText ==
            <<"H", "o", "s", "t", "E", "r", "r", "o", "r", ":", " ", "c", "o", "n", "t", "r",
              "a", "c", "t", " ", "c", "a", "l", "l", " ", "f", "a", "i", "l", "e", "d">>
        HostErrorSpacedText ==
            <<"H", "o", "s", "t", " ", "E", "r", "r", "o", "r">>
        UnreachableText ==
            <<"U", "n", "r", "e", "a", "c", "h", "a", "b", "l", "e">>
        StackOverflowText ==
            <<"S", "T", "A", "C", "K", " ", "O", "V", "E", "R", "F", "L", "O", "W">>
        UnexpectedText ==
            <<"s", "o", "m", "e", "t", "h", "i", "n", "g", " ", "c", "o", "m", "p", "l", "e",
              "t", "e", "l", "y", " ", "u", "n", "e", "x", "p", "e", "c", "t", "e", "d">>
        OutOfBoundsText ==
            <<"o", "u", "t", " ", "o", "f", " ", "b", "o", "u", "n", "d", "s">>
        DivisionByText ==
            <<"d", "i", "v", "i", "s", "i", "o", "n", " ", "b", "y">>
        ElementText ==
            <<"e", "l", "e", "m", "e", "n", "t", " ", "u", "n", "d", "e", "f", "i", "n", "e",
              "d">>
    IN  {TrapLiterals[f] : f \in DOMAIN TrapLiterals}
        \cup {MemoryAccessText, HostErrorText, HostErrorSpacedText, UnreachableText,
              StackOverflowText, UnexpectedText, OutOfBoundsText, DivisionByText,
              ElementText}

RawMessages ==
    {h \o b \o t : h \in MessageHeads, b \in MessageBodies,
                   t \in {<<>>} \cup {<<" ">> \o b2 : b2 \in MessageBodies}}

TrapInit ==
    /\ MainInit
    /\ FeeIdle /\ VmIdle /\ MapperIdle /\ SnapshotIdle /\ CacheIdle /\ ExtLibIdle
    /\ trap_in \in {Some(msg) : msg \in RawMessages}
    /\ trap_out = None

ClassifyTrap ==
    /\ IsSome(trap_in) /\ trap_out = None
    /\ trap_out' = Some(classify_trap(Unwrap(trap_in)))
    /\ UNCHANGED <<mainVars, fee_in, fee_out, vm_in, vm_out, mapperVars, snapshotVars,
                   cacheVars, extLibVars, trap_in>>

TrapNext == ClassifyTrap

TrapSpec == TrapInit /\ [][TrapNext]_vars

-----------------------------------------------------------------------------
(* main.rs: the LCOV report of the coverage tracker *)

\* The characters of the labels drawn, in ascending byte order.
ByteOrder ==
    <<"\n", "\"", ",", ":", "B", "C", "I", "_", "a", "b", "c", "e", "f", "i", "k", "n",
      "o", "r", "s", "t", "v">>

byte(c) == CHOOSE i \in 1..Len(ByteOrder) : ByteOrder[i] = c

\* str::cmp(a, b) = Less: byte-wise lexicographic order
str_lt(a, b) ==
    \E k \in 1..Len(b) :
        /\ k <= Len(a) + 1
        /\ SubSeq(a, 1, k - 1) = SubSeq(b, 1, k - 1)
        /\ k > Len(a) \/ byte(a[k]) < byte(b[k])

\* name.replace('\n', "_").replace(',', "_")
sanitize(name) == [i \in 1..Len(name) |-> IF name[i] \in {"\n", ","} THEN "_" ELSE name[i]]

RECURSIVE insert_by_name(_, _)
insert_by_name(sorted, f) ==
    IF sorted = <<>> THEN <<f>>
    ELSE IF str_lt(f.name, Head(sorted).name) THEN <<f>> \o sorted
    ELSE <<Head(sorted)>> \o insert_by_name(Tail(sorted), f)

\* functions left in the iteration order of the HashMap
sort_by_name_unsorted(functions) == functions

\* functions.sort_by(|(a, _), (b, _)| a.cmp(b))
RECURSIVE sort_by_name(_)
sort_by_name(functions) ==
    IF functions = <<>> THEN <<>>
    ELSE insert_by_name(sort_by_name(SubSeq(functions, 1, Len(functions) - 1)),
                        functions[Len(functions)])

\* `invoked_functions` is the HashMap in the order its iterator yields it; a
\* report is the sequence of its lines.
generate_lcov_report(invoked_functions, source_file) ==
    LET functions == sort_by_name(invoked_functions)
        fnf == Len(functions)
        fnh == Cardinality({i \in 1..Len(functions) : functions[i].count > 0})
    IN  << <<"TN:simulator">>, <<"SF:", source_file>> >>
        \o [idx \in 1..Len(functions) |->
               <<"FN:", ToString(idx), ",">> \o sanitize(functions[idx].name)]
        \o [idx \in 1..Len(functions) |->
               <<"FNDA:", ToString(functions[idx].count), ",">>
               \o sanitize(functions[idx].name)]
        \o << <<"FNF:", ToString(fnf)>>, <<"FNH:", ToString(fnh)>>,
              <<"DA:1,1">>, <<"LF:1">>, <<"LH:1">>, <<"end_of_record">> >>

\* Labels: those of the test, labels that order by length, by case and by the
\* sanitized characters.
CoverageLabels ==
    {<<"I", "n", "v", "o", "k", "e", "C", "o", "n", "t", "r", "a", "c", "t", ":", ":",
       "\"", "i", "n", "i", "t", "\"">>,
     <<"I", "n", "v", "o", "k", "e", "C", "o", "n", "t", "r", "a", "c", "t", ":", ":",
       "\"", "t", "r", "a", "n", "s", "f", "e", "r", "\"">>,
     <<"a">>, <<"a", "b">>, <<"B">>, <<"a", ",", "b">>, <<"a", "\n", "b">>}

CoverageCounts == {0, 3}

CoverageMaps ==
    {m \in SeqsUpTo([name : CoverageLabels, count : CoverageCounts], MaxLabels) :
        \A i, j \in 1..Len(m) : i # j => m[i].name # m[j].name}

LcovInit ==
    /\ MainInit
    /\ FeeIdle /\ VmIdle /\ MapperIdle /\ SnapshotIdle /\ CacheIdle /\ TrapIdle
    /\ WipeIdle /\ LineIdle /\ RaceIdle
    /\ lcov_in \in {Some(m) : m \in CoverageMaps}
    /\ lcov_out = None

GenerateLcovReport ==
    /\ IsSome(lcov_in) /\ lcov_out = None
    /\ lcov_out' = Some(generate_lcov_report(Unwrap(lcov_in), "/tmp/contract.wasm"))
    /\ UNCHANGED <<mainVars, fee_in, fee_out, vm_in, vm_out, mapperVars, snapshotVars,
                   cacheVars, trapVars, wipeVars, lineVars, raceVars, lcov_in>>

LcovNext == GenerateLcovReport

LcovSpec == LcovInit /\ [][LcovNext]_vars

-----------------------------------------------------------------------------
(* runner.rs: SimHost and the wipe that keeps compiled modules *)

\* Host::with_storage_and_budget(Storage::default(), Budget::default())
Host_with_storage_and_budget ==
    [cpu |-> 0, mem |-> 0, storage |-> EmptyMap, module_cache |-> None,
     diagnostic_level |-> "None"]

\* Host::take_module_cache: Err when the host holds no module cache.
take_module_cache(h) ==
    IF IsSome(h.module_cache)
    THEN [ok |-> TRUE, cache |-> h.module_cache, host |-> [h EXCEPT !.module_cache = None]]
    ELSE [ok |-> FALSE, cache |-> None, host |-> h]

\* Host::set_module_cache: Err when the host already holds one.
set_module_cache(h, cache) ==
    IF IsSome(h.module_cache)
    THEN [ok |-> FALSE, host |-> h]
    ELSE [ok |-> TRUE, host |-> [h EXCEPT !.module_cache = Some(cache)]]

SimHost_new(memory_limit) ==
    [inner |-> [Host_with_storage_and_budget EXCEPT !.diagnostic_level = "Debug"],
     contract_id |-> None, fn_name |-> None, memory_limit |-> memory_limit]

\* The wipe without the transfer of the module cache.
wipe_ledger_state_dropping_modules(self, diagnostic_ok) ==
    LET taken == take_module_cache(self.inner)
        fresh_host == [Host_with_storage_and_budget EXCEPT !.diagnostic_level = "Debug"]
    IN  IF ~diagnostic_ok
        THEN [ok |-> FALSE, self |-> [self EXCEPT !.inner = taken.host]]
        ELSE [ok |-> TRUE,
              self |-> [self EXCEPT !.inner = fresh_host, !.contract_id = None,
                                    !.fn_name = None]]

\* `diagnostic_ok`: whether set_diagnostic_level on the fresh host returned Ok.
\* On an early return `self.inner` is still the old host, its cache taken.
wipe_ledger_state_preserving_modules(self, diagnostic_ok) ==
    LET taken == take_module_cache(self.inner)
        module_cache == IF taken.ok THEN taken.cache ELSE None
        fresh_host == [Host_with_storage_and_budget EXCEPT !.diagnostic_level = "Debug"]
        installed == IF IsSome(module_cache)
                     THEN set_module_cache(fresh_host, Unwrap(module_cache))
                     ELSE [ok |-> TRUE, host |-> fresh_host]
    IN  IF ~diagnostic_ok \/ ~installed.ok
        THEN [ok |-> FALSE, self |-> [self EXCEPT !.inner = taken.host]]
        ELSE [ok |-> TRUE,
              self |-> [self EXCEPT !.inner = installed.host, !.contract_id = None,
                                    !.fn_name = None]]

ModuleCaches == {"cache_a", "cache_b"}
MemoryLimits == {None, Some(1024)}

WipeInit ==
    /\ MainInit
    /\ FeeIdle /\ VmIdle /\ MapperIdle /\ SnapshotIdle /\ CacheIdle /\ TrapIdle
    /\ LcovIdle /\ LineIdle /\ RaceIdle
    /\ sim_host \in {Some(SimHost_new(l)) : l \in MemoryLimits}
    /\ wipe_out = None

\* set_contract_id
SetContractId ==
    /\ sim_host' = Some([Unwrap(sim_host) EXCEPT !.contract_id = Some("Hash(00)")])
    /\ wipe_out' = None
    /\ UNCHANGED <<mainVars, fee_in, fee_out, vm_in, vm_out, mapperVars, snapshotVars,
                   cacheVars, trapVars, lcovVars, lineVars, raceVars>>

\* set_fn_name
SetFnName ==
    /\ sim_host' = Some([Unwrap(sim_host) EXCEPT !.fn_name = Some("add")])
    /\ wipe_out' = None
    /\ UNCHANGED <<mainVars, fee_in, fee_out, vm_in, vm_out, mapperVars, snapshotVars,
                   cacheVars, trapVars, lcovVars, lineVars, raceVars>>

\* host.inner.set_module_cache(cache), as the test installs one
InstallModuleCache ==
    /\ \E cache \in ModuleCaches :
          sim_host' = Some([Unwrap(sim_host) EXCEPT
                              !.inner = set_module_cache(@, cache).host])
    /\ wipe_out' = None
    /\ UNCHANGED <<mainVars, fee_in, fee_out, vm_in, vm_out, mapperVars, snapshotVars,
                   cacheVars, trapVars, lcovVars, lineVars, raceVars>>

\* Work done on the inner host: budget consumed, a ledger entry written.
UseInnerHost ==
    /\ Unwrap(sim_host).inner.cpu = 0
    /\ sim_host' = Some([Unwrap(sim_host) EXCEPT
                           !.inner.cpu = 10000, !.inner.mem = 512,
                           !.inner.storage = map_insert(@, LedgerKey_to_xdr(LedgerKey(1)),
                                                        LedgerEntry(999, 1, 5))])
    /\ wipe_out' = None
    /\ UNCHANGED <<mainVars, fee_in, fee_out, vm_in, vm_out, mapperVars, snapshotVars,
                   cacheVars, trapVars, lcovVars, lineVars, raceVars>>

\* `consecutive` counts the wipes made with nothing in between, up to MaxWipes.
Wipe ==
    /\ \E diagnostic_ok \in BOOLEAN :
          LET r == wipe_ledger_state_preserving_modules(Unwrap(sim_host), diagnostic_ok)
              consecutive == IF IsSome(wipe_out) THEN Unwrap(wipe_out).consecutive ELSE 0
          IN  /\ sim_host' = Some(r.self)
              /\ wipe_out' = Some([before |-> Unwrap(sim_host), ok |-> r.ok,
                                   consecutive |-> Min(consecutive + 1, MaxWipes)])
    /\ UNCHANGED <<mainVars, fee_in, fee_out, vm_in, vm_out, mapperVars, snapshotVars,
                   cacheVars, trapVars, lcovVars, lineVars, raceVars>>

WipeNext ==
    \/ SetContractId
    \/ SetFnName
    \/ InstallModuleCache
    \/ UseInnerHost
    \/ Wipe

WipeSpec == WipeInit /\ [][WipeNext]_vars

-----------------------------------------------------------------------------
(* source_mapper.rs: the walk of the line programs that builds the line cache *)

\* A row of a line-number sequence.  `file` is None when the row names no file
\* or its name cannot be read.
LineRow(address, end_sequence, file, line, column) ==
    [address |-> address, end_sequence |-> end_sequence, file |-> file, line |-> line,
     column |-> column]

\* The rows of one sequence, from row i on: `pending` is the row waiting for
\* its end, `cache` the entries pushed so far.
RECURSIVE walk_rows(_, _, _, _)
walk_rows(rows, i, pending, cache) ==
    IF i > Len(rows)
    THEN IF IsSome(pending)
         THEN Append(cache, CachedLineEntry(Unwrap(pending).start, None,
                                            Unwrap(pending).location))
         ELSE cache
    ELSE LET row == rows[i]
         IN  IF row.end_sequence
             THEN walk_rows(rows, i + 1, None,
                            IF IsSome(pending)
                            THEN Append(cache,
                                        CachedLineEntry(Unwrap(pending).start,
                                                        Some(row.address),
                                                        Unwrap(pending).location))
                            ELSE cache)
             ELSE IF ~IsSome(row.file) \/ ~IsSome(row.line)
             THEN walk_rows(rows, i + 1, pending, cache)
             ELSE LET location == SourceLocation(Unwrap(row.file), Unwrap(row.line),
                                                 row.column, None, None)
                  IN  walk_rows(rows, i + 1,
                                Some([start |-> row.address, location |-> location]),
                                IF IsSome(pending)
                                THEN Append(cache,
                                            CachedLineEntry(Unwrap(pending).start,
                                                            Some(row.address),
                                                            Unwrap(pending).location))
                                ELSE cache)

RECURSIVE walk_sequences(_, _, _)
walk_sequences(sequences, j, cache) ==
    IF j > Len(sequences) THEN cache
    ELSE walk_sequences(sequences, j + 1, walk_rows(sequences[j], 1, None, cache))

\* The loop over the units; a unit without a line program is passed over.
RECURSIVE walk_units(_, _, _)
walk_units(units, u, cache) ==
    IF u > Len(units) THEN cache
    ELSE walk_units(units, u + 1,
                    IF IsSome(units[u].line_program)
                    THEN walk_sequences(Unwrap(units[u].line_program), 1, cache)
                    ELSE cache)

extract_line_entries(units) ==
    dedupe_same_address_entries(sort_by_start(walk_units(units, 1, <<>>)))

RowAddresses == 0..2

\* Rows of a sequence before its end: addresses do not decrease, a row may
\* name no file.  The line of a row is set apart below by its place in the walk.
SequenceBodies ==
    {b \in SeqsUpTo(RowAddresses \X BOOLEAN, MaxSeqRows) :
        \A i \in 1..(Len(b) - 1) : b[i][1] <= b[i + 1][1]}

EndAddresses == 0..3

\* (body, address of the end_sequence row): the end is not below the last row.
SequenceShapes ==
    {shape \in SequenceBodies \X EndAddresses :
        shape[1] = <<>> \/ shape[2] >= shape[1][Len(shape[1])][1]}

\* The sequence of a shape, its rows numbered from `first_line`.
LineSequence(shape, first_line) ==
    [i \in 1..Len(shape[1]) |->
        LineRow(shape[1][i][1], FALSE,
                IF shape[1][i][2] THEN Some(RelativeFile) ELSE None,
                Some(first_line + i), None)]
    \o <<LineRow(shape[2], TRUE, None, None, None)>>

LineLayouts == {"one sequence", "two sequences", "two units"}

\* One sequence; two sequences of one unit; two units, a unit without a line
\* program between them.
LineUnits(a, b, layout) ==
    CASE layout = "one sequence" ->
            << [line_program |-> Some(<<LineSequence(a, 10)>>)] >>
      [] layout = "two sequences" ->
            << [line_program |-> Some(<<LineSequence(a, 10), LineSequence(b, 20)>>)] >>
      [] layout = "two units" ->
            << [line_program |-> Some(<<LineSequence(a, 10)>>)],
               [line_program |-> None],
               [line_program |-> Some(<<LineSequence(b, 20)>>)] >>

LineCacheInit ==
    /\ MainInit
    /\ FeeIdle /\ VmIdle /\ MapperIdle /\ SnapshotIdle /\ CacheIdle /\ TrapIdle
    /\ LcovIdle /\ WipeIdle /\ RaceIdle
    /\ \E a \in SequenceShapes, b \in SequenceShapes, layout \in LineLayouts :
          line_in = Some(LineUnits(a, b, layout))
    /\ line_out = None

ExtractLineEntries ==
    /\ IsSome(line_in) /\ line_out = None
    /\ line_out' = Some(extract_line_entries(Unwrap(line_in)))
    /\ UNCHANGED <<mainVars, fee_in, fee_out, vm_in, vm_out, mapperVars, snapshotVars,
                   cacheVars, trapVars, lcovVars, wipeVars, raceVars, line_in>>

LineCacheNext == ExtractLineEntries

LineCacheSpec == LineCacheInit /\ [][LineCacheNext]_vars

-----------------------------------------------------------------------------
(* source_map_cache.rs: store and get of concurrent processes on one file *)

\* write(2) of `chunk` at `offset` of a file: the file grows as needed, a gap
\* left by a truncation reads as zero bytes.
write_at(file_bytes, offset, chunk) ==
    [i \in 1..Max(Len(file_bytes), offset + Len(chunk)) |->
        IF i > offset /\ i <= offset + Len(chunk) THEN chunk[i - offset]
        ELSE IF i <= Len(file_bytes) THEN file_bytes[i]
        ELSE 0]

\* Bytes one write or read call may transfer when `available` are left: all of
\* them, or a part of MaxChunk.
TransferSizes(available) == {available} \cup {n \in {MaxChunk} : n < available}

Writers == {1, 2}

RaceHash == compute_wasm_hash(SymbolWasm)

\* Entries the writers store under the one hash; they read back when stored alone.
RaceEntries ==
    {SourceMapCacheEntry(RaceHash, s, EmptyMap, c) : s \in BOOLEAN, c \in {0, 1234}}
    \cup {SourceMapCacheEntry(RaceHash, TRUE, map_insert(EmptyMap, 4660, LinkedLocation), 0)}

WriterIdle(entry) ==
    [pc |-> "idle", entry |-> entry,
     bytes |-> bincode_serialize(entry, CHOOSE o \in IterationOrders(entry.mappings) : TRUE),
     offset |-> 0]

ReaderIdle == [pc |-> "idle", offset |-> 0, bytes |-> <<>>, result |-> None]

RaceInit ==
    /\ MainInit
    /\ FeeIdle /\ VmIdle /\ MapperIdle /\ SnapshotIdle /\ CacheIdle /\ TrapIdle
    /\ LcovIdle /\ WipeIdle /\ LineIdle
    /\ race_file = None
    /\ race_procs \in
          {Some([writers |-> [w \in Writers |-> WriterIdle(IF w = 1 THEN a ELSE b)],
                 reader |-> ReaderIdle, finished |-> <<>>])
             : <<a, b>> \in {pair \in RaceEntries \X RaceEntries : pair[1] # pair[2]}}

Procs == Unwrap(race_procs)

\* store, up to File::create: the entry is serialized, the file created or truncated.
StoreCreate(w) ==
    /\ Procs.writers[w].pc = "idle"
    /\ race_file' = Some(<<>>)
    /\ race_procs' = Some([Procs EXCEPT !.writers[w].pc = "writing"])
    /\ UNCHANGED <<mainVars, fee_in, fee_out, vm_in, vm_out, mapperVars, snapshotVars,
                   cacheVars, trapVars, lcovVars, wipeVars, lineVars>>

\* One write call of write_all; store returns after the last.
StoreWrite(w) ==
    /\ Procs.writers[w].pc = "writing"
    /\ LET self == Procs.writers[w]
       IN  \E n \in TransferSizes(Len(self.bytes) - self.offset) :
              /\ race_file' = Some(write_at(Unwrap(race_file), self.offset,
                                            SubSeq(self.bytes, self.offset + 1,
                                                   self.offset + n)))
              /\ race_procs' =
                    Some(IF self.offset + n = Len(self.bytes)
                         THEN [Procs EXCEPT !.writers[w].pc = "done",
                                            !.writers[w].offset = self.offset + n,
                                            !.finished = Append(@, w)]
                         ELSE [Procs EXCEPT !.writers[w].offset = self.offset + n])
    /\ UNCHANGED <<mainVars, fee_in, fee_out, vm_in, vm_out, mapperVars, snapshotVars,
                   cacheVars, trapVars, lcovVars, wipeVars, lineVars>>

\* get, up to File::open: a miss when the file does not exist.
GetOpen ==
    /\ Procs.reader.pc \in {"idle", "done"}
    /\ race_procs' =
          Some(IF race_file = None
               THEN [Procs EXCEPT !.reader = [ReaderIdle EXCEPT !.pc = "done"]]
               ELSE [Procs EXCEPT !.reader = [ReaderIdle EXCEPT !.pc = "reading"]])
    /\ UNCHANGED <<mainVars, fee_in, fee_out, vm_in, vm_out, mapperVars, snapshotVars,
                   cacheVars, trapVars, lcovVars, wipeVars, lineVars, race_file>>

\* One read call of read_to_end; at end of file the bytes are deserialized
\* and get returns.
GetRead ==
    /\ Procs.reader.pc = "reading"
    /\ LET self == Procs.reader
           available == Max(Len(Unwrap(race_file)) - self.offset, 0)
       IN  IF available = 0
           THEN LET entry == bincode_deserialize(self.bytes)
                IN  race_procs' =
                       Some([Procs EXCEPT !.reader.pc = "done",
                                          !.reader.result =
                                             IF entry.ok THEN Some(entry.val) ELSE None])
           ELSE \E n \in TransferSizes(available) :
                   race_procs' =
                      Some([Procs EXCEPT
                              !.reader.bytes = @ \o SubSeq(Unwrap(race_file),
                                                           self.offset + 1, self.offset + n),
                              !.reader.offset = self.offset + n])
    /\ UNCHANGED <<mainVars, fee_in, fee_out, vm_in, vm_out, mapperVars, snapshotVars,
                   cacheVars, trapVars, lcovVars, wipeVars, lineVars, race_file>>

RaceNext ==
    \/ \E w \in Writers : StoreCreate(w)
    \/ \E w \in Writers : StoreWrite(w)
    \/ GetOpen
    \/ GetRead

RaceSpec == RaceInit /\ [][RaceNext]_vars

-----------------------------------------------------------------------------
(* Properties *)

Exited == pc = "exited"
Response == stdout[1]

\* C1: on every path of main exactly one response is written to standard
\* output, and it is written before the process ends: nothing is printed twice,
\* the process has ended exactly when one response is out (also after a host
\* error or a panic in the dispatcher), and main never stops short of its end.
C1_ExactlyOneResponse ==
    /\ Len(stdout) <= 1
    /\ Exited <=> Len(stdout) = 1
    /\ Exited <=> exit_code # -1
    /\ ~Exited => ENABLED Next

C1_Witness ==
    /\ Exited
    /\ result.kind = "Panic"
    /\ Len(stdout) = 1

\* The first token of every message main passes to send_error.
SendErrorPrefixes ==
    {"Failed to decode Envelope Base64: ", "Failed to parse Envelope XDR: ",
     "Strict VM enforcement failed: ", "Local WASM loading failed: ",
     "Failed to decode LedgerKey Base64: ", "Failed to parse LedgerKey XDR: ",
     "Failed to decode LedgerEntry Base64: ", "Failed to parse LedgerEntry XDR: "}

EndedThroughSendError ==
    /\ Exited
    /\ IsSome(Response.error)
    /\ Unwrap(Response.error)[1] \in SendErrorPrefixes

\* C2: the exit status is non-zero exactly when the run ended through
\* send_error; success, mocked-fee error, host error, caught panic, stdin
\* failure and invalid JSON all exit with status 0.
C2_ExitStatus ==
    Exited =>
        /\ exit_code # 0 <=> EndedThroughSendError
        /\ result.kind \in {"Ok", "HostErr", "Panic"} => exit_code = 0
        /\ request = None => exit_code = 0

C2_Witness ==
    /\ EndedThroughSendError
    /\ host_constructed
    /\ exit_code = 1

\* C3: a memory check that finds consumed memory above memory_limit yields an
\* error response with error_code ERR_MEMORY_LIMIT_EXCEEDED whose first log
\* entry begins "PANIC:"; a caught panic whose message lacks the marker yields
\* an error response without error_code.
C3_MemoryLimitResponse ==
    (Exited /\ result.kind = "Panic") =>
        /\ Response.status = "error"
        /\ result.payload.origin = "memory_check" =>
              /\ IsSome(Req.memory_limit) /\ host.mem > Unwrap(Req.memory_limit)
              /\ Response.error_code = Some(ERR_MEMORY_LIMIT_EXCEEDED)
              /\ Len(Response.logs) >= 1
              /\ StartsWith(Response.logs[1], "PANIC: ")
        /\ ~Contains(panic_message(result.payload), ERR_MEMORY_LIMIT_EXCEEDED) =>
              Response.error_code = None

C3_Witness ==
    /\ Exited
    /\ result.kind = "Panic"
    /\ result.payload.origin = "memory_check"
    /\ Response.error_code = Some(ERR_MEMORY_LIMIT_EXCEEDED)

\* C4: every structured record emitted for a host event, in diagnostic_events
\* and in categorized_events, has in_successful_contract_call equal to the
\* negation of the event's failed_call.
C4_SuccessfulCallIsNegation ==
    Exited =>
        /\ \A i \in 1..Len(Response.diagnostic_events) :
              Response.diagnostic_events[i].in_successful_contract_call
                  = ~host.events[i].failed_call
        /\ \A i \in 1..Len(Response.categorized_events) :
              Response.categorized_events[i].event.in_successful_contract_call
                  = ~host.events[i].failed_call

C4_Witness ==
    /\ Exited
    /\ \E i \in 1..Len(Response.diagnostic_events) : host.events[i].failed_call
    /\ \E i \in 1..Len(Response.categorized_events) : ~host.events[i].failed_call

\* C5: in every success response events, diagnostic_events and
\* categorized_events have the same length, whatever the two reads of the
\* host's events return.
C5_EqualLengths ==
    (Exited /\ Response.status = "success") =>
        /\ Len(Response.events) = Len(Response.diagnostic_events)
        /\ Len(Response.diagnostic_events) = Len(Response.categorized_events)

\* C6: when the dispatcher ends with a host error, the events the host recorded
\* up to the trap are in the error response.
C6_EventsPreservedOnHostError ==
    (Exited /\ result.kind = "HostErr") =>
        /\ Len(Response.events) = Len(host.events)
        /\ Response.diagnostic_events
              = [i \in 1..Len(host.events) |-> diagnostic_event(host.events[i])]
        /\ Response.categorized_events = categorize_events(host.events)

MockFeeSet == IsSome(Req.mock_base_fee) \/ IsSome(Req.mock_gas_price)

DeclaredFee == transaction_fee_stroops(Req.envelope_xdr.envelope)
RequiredFee == Unwrap(mocked_required_fee_stroops(Req, Len(Ops), host.cpu, host.mem))

InsufficientFeeResponse ==
    /\ Response.status = "error"
    /\ IsSome(Response.error)
    /\ StartsWith(Unwrap(Response.error), "insufficient fee (mocked)")

\* C7: after a dispatch that completed with a mock fee field set, the response
\* is an "insufficient fee (mocked)" error exactly when the declared fee is
\* below the required fee, that error still carries budget_usage and the events
\* collected, and otherwise the response is a success.
C7_MockedFeeCheck ==
    (Exited /\ result.kind = "Ok" /\ MockFeeSet) =>
        /\ InsufficientFeeResponse <=> DeclaredFee < RequiredFee
        /\ DeclaredFee >= RequiredFee => Response.status = "success"
        /\ DeclaredFee < RequiredFee =>
              /\ Response.budget_usage = Some(BudgetUsage(host))
              /\ host.events # <<>> => Response.events # <<>>
              /\ Response.diagnostic_events \in
                    {<<>>, [i \in 1..Len(host.events) |-> diagnostic_event(host.events[i])]}
              /\ Response.categorized_events \in {<<>>, categorize_events(host.events)}
              /\ Len(Response.logs) >= 5 + Len(result.logs)

C7_Witness ==
    /\ Exited
    /\ result.kind = "Ok"
    /\ MockFeeSet
    /\ InsufficientFeeResponse
    /\ Response.diagnostic_events # <<>>
    /\ IsSome(Response.budget_usage)

CeilDiv(a, b) == (a + b - 1) \div b

FeeArgs == Unwrap(fee_in)
FeeResult == Unwrap(fee_out)
BaseFeePart == IF IsSome(FeeArgs.mock_base_fee)
               THEN Unwrap(FeeArgs.mock_base_fee) * FeeArgs.operations_count
               ELSE 0
GasPrice == IF IsSome(FeeArgs.mock_gas_price) THEN Unwrap(FeeArgs.mock_gas_price) ELSE 0

\* base_fee * ops_count + gas_price * max(1, ceil(cpu/10_000) + ceil(mem/1_024)),
\* over the integers
StatedRequiredFee ==
    BaseFeePart
    + GasPrice * Max(1, CeilDiv(FeeArgs.cpu_insns, 10000)
                        + CeilDiv(FeeArgs.mem_bytes, 1024))

\* the same with each sum and product capped at the largest u64
CappedRequiredFee ==
    Min(U64Max,
        BaseFeePart
        + GasPrice * Max(1, Min(FeeArgs.cpu_insns + 9999, U64Max) \div 10000
                            + Min(FeeArgs.mem_bytes + 1023, U64Max) \div 1024))

FeeEnabled == IsSome(FeeArgs.mock_base_fee) \/ IsSome(FeeArgs.mock_gas_price)

\* C8 as stated: with a mock fee field set the required fee is the stated
\* formula for every u64 cpu and mem, every operation count, base_fee and
\* gas_price; with neither set no required fee is computed.
C8_RequiredFeeFormula ==
    IsSome(fee_out) =>
        IF FeeEnabled THEN FeeResult = Some(StatedRequiredFee) ELSE FeeResult = None

\* C8 amended: with a mock fee field set the required fee is the stated formula
\* with every sum and product capped at the largest u64, which is the stated
\* formula whenever cpu + 9999, mem + 1023 and the result fit in a u64; with
\* neither field set no required fee is computed.
C8_RequiredFeeSaturating ==
    IsSome(fee_out) =>
        IF FeeEnabled
        THEN /\ FeeResult = Some(CappedRequiredFee)
             /\ ( /\ FeeArgs.cpu_insns <= U64Max - 9999
                  /\ FeeArgs.mem_bytes <= U64Max - 1023
                  /\ StatedRequiredFee <= U64Max )
                => FeeResult = Some(StatedRequiredFee)
        ELSE FeeResult = None

C8_Witness ==
    /\ IsSome(fee_out)
    /\ IsSome(FeeArgs.mock_gas_price)
    /\ FeeArgs.cpu_insns = U64Max
    /\ FeeResult = Some(CappedRequiredFee)
    /\ CappedRequiredFee < StatedRequiredFee
    /\ CappedRequiredFee < U64Max

\* The operators of OperatorSamples that are floating-point operators: scalar
\* f32/f64, SIMD f32x4/f64x2, and float-int conversion or truncation.
FloatingPointOperators ==
    {"F32Add", "F64Const", "I32TruncSatF64U",
     "F32x4Add", "F64x2Mul", "I32x4TruncSatF32x4S"}

HasFloatingPointOperator(wasm) ==
    \E i \in 1..Len(wasm) :
        /\ wasm[i].kind = "CodeSectionEntry"
        /\ \E j \in 1..Len(wasm[i].ops) : wasm[i].ops[j] \in FloatingPointOperators

\* C9: for every module whose code section holds a floating-point operator of
\* any kind, enforce_soroban_compatibility returns an error.
C9_FloatModulesRejected ==
    (IsSome(vm_out) /\ HasFloatingPointOperator(Unwrap(vm_in))) => ~Unwrap(vm_out).ok

\* C10: a contract module the validator rejects ends the run with a fatal
\* error response before the host is constructed and before any operation is
\* dispatched.
C10_RejectedModuleNeverRuns ==
    wasm_rejected =>
        /\ Exited
        /\ exit_code = 1
        /\ StartsWith(Unwrap(Response.error), "Strict VM enforcement failed: ")
        /\ ~host_constructed
        /\ op_index = 0
        /\ \A l \in FunctionLabels : coverage[l] = 0
        /\ result.kind = "none"

C10_Witness ==
    /\ wasm_rejected
    /\ Exited
    /\ Len(Ops) > 0

Mapper == Unwrap(mapper)
Lookup == Unwrap(map_out)

\* Indices of the line-cache entries that start at or below the offset.
StartsAtOrBelow(wasm_offset) ==
    {i \in 1..Len(Mapper.line_cache) : Mapper.line_cache[i].start <= wasm_offset}

\* The entry with the largest start at or below the offset.
SelectedEntry(wasm_offset) ==
    Mapper.line_cache[CHOOSE i \in StartsAtOrBelow(wasm_offset) :
                        \A j \in StartsAtOrBelow(wasm_offset) :
                            Mapper.line_cache[j].start <= Mapper.line_cache[i].start]

SameSourcePosition(a, b) ==
    /\ a.file = b.file
    /\ a.line = b.line
    /\ a.column = b.column
    /\ a.column_end = b.column_end

\* C11: map_wasm_offset_to_source(offset) returns the location of the
\* line-cache entry with the largest start <= offset when that entry has no end
\* or offset < end (the git permalink being the only field the lookup adds); it
\* returns unmapped when the WASM lacks .debug_info or .debug_line, when offset
\* is below every start, and when offset >= the selected entry's end.
C11_LookupSelectsInterval ==
    IsSome(map_out) =>
        LET wasm_offset == Lookup.wasm_offset
            location == Lookup.location
        IN  /\ (~Mapper.wasm.parses \/ ~Mapper.wasm.debug_info \/ ~Mapper.wasm.debug_line)
                  => location = None
            /\ StartsAtOrBelow(wasm_offset) = {} => location = None
            /\ StartsAtOrBelow(wasm_offset) # {} =>
                  LET entry == SelectedEntry(wasm_offset)
                  IN  IF entry.end = None \/ wasm_offset < Unwrap(entry.end)
                      THEN /\ IsSome(location)
                           /\ SameSourcePosition(Unwrap(location), entry.location)
                           /\ Unwrap(location).github_link =
                                 IF IsSome(Mapper.git_repo)
                                 THEN generate_file_link(Unwrap(Mapper.git_repo),
                                                         entry.location.file,
                                                         entry.location.line)
                                 ELSE None
                      ELSE location = None

\* A lookup strictly inside the second of two intervals, one offset before its
\* end, answered with a permalink.
C11_Witness ==
    /\ IsSome(map_out)
    /\ Len(Mapper.line_cache) = 2
    /\ Lookup.wasm_offset > Mapper.line_cache[2].start
    /\ Mapper.line_cache[2].end = Some(Lookup.wasm_offset + 1)
    /\ IsSome(Lookup.location)
    /\ Unwrap(Lookup.location).line = Mapper.line_cache[2].location.line
    /\ IsSome(Unwrap(Lookup.location).github_link)

LedgerEntriesRead == Unwrap(ledger_inputs).ledger_entries

\* Every pair of the map passes both decoders of the snapshot module.
AllPairsDecode(entries) ==
    \A i \in 1..Len(entries) :
        /\ decode_ledger_key(entries[i].key).ok
        /\ decode_ledger_entry(entries[i].entry).ok

\* main ended through send_error in the storage stage, before any dispatch.
FatalInStorageStage ==
    /\ Exited
    /\ EndedThroughSendError
    /\ exit_code = 1
    /\ op_index = 0
    /\ result = NoResult
    /\ exec_logs = <<>>

C13_KeysAreCanonicalXdr ==
    IsSome(snapshot) =>
        \A key \in DOMAIN Unwrap(snapshot) :
            /\ LedgerKey_from_xdr(key).ok
            /\ LedgerKey_to_xdr(LedgerKey_from_xdr(key).val) = key

RestorePreambleRead == Unwrap(ledger_inputs).restore_preamble

PairsOf(o) == IF IsSome(o) THEN Unwrap(o) ELSE <<>>

\* The ledger state the two maps describe: the preamble's pairs, then the
\* request's ledger_entries over them.
MergedLedgerState ==
    from_base64_map(PairsOf(RestorePreambleRead) \o PairsOf(LedgerEntriesRead))

\* C15: the pairs of restore_preamble are decoded under the rules of
\* ledger_entries (an undecodable pair is fatal) and merged with ledger_entries,
\* which win on a common key, into the ledger state execution uses.
C15_RestorePreambleMerged ==
    IsSome(ledger_inputs) =>
        /\ ~AllPairsDecode(PairsOf(RestorePreambleRead)) => FatalInStorageStage
        /\ (pc \in {"dispatch", "dispatch_loop", "report"} /\ MergedLedgerState.ok)
              => host.storage = MergedLedgerState.val

CacheResult == Unwrap(cache_out)

\* The flag check_debug_symbols computes from the binary with the given digest.
FreshHasSymbols(wasm_hash) ==
    check_debug_symbols(CHOOSE w \in CachedWasms : compute_wasm_hash(w) = wasm_hash)

\* C16: a cache read returns a stored entry only if the entry's has_symbols
\* flag equals the flag freshly computed from the WASM bytes.
C16_ReadValidatesHasSymbols ==
    (IsSome(cache_out) /\ CacheResult.op = "get" /\ IsSome(CacheResult.entry)) =>
        Unwrap(CacheResult.entry).has_symbols = FreshHasSymbols(CacheResult.wasm_hash)

\* C17: the cache is a map from WASM hash to entry: get(h) returns the entry
\* last stored under h since the last clear, or a miss; list_cached lists
\* exactly the stored hashes; clear returns the number of entries it removed.
C17_CacheIsAMap ==
    [][IsSome(cache_out') =>
          LET call == Unwrap(cache_out')
          IN  /\ call.op = "get" =>
                    call.entry = IF call.wasm_hash \in DOMAIN stored_entries'
                                 THEN Some(stored_entries'[call.wasm_hash])
                                 ELSE None
              /\ call.op = "list_cached" =>
                    {info.wasm_hash : info \in call.listed} = DOMAIN stored_entries'
              /\ call.op = "clear" =>
                    call.count = Cardinality(DOMAIN stored_entries)]_vars


Lowercase(label) ==
    CASE label = "Contract" -> "contract"
      [] label = "System" -> "system"
      [] label = "Diagnostic" -> "diagnostic"

\* C19: for every host event the classifier's category is Contract, System or
\* Diagnostic according to the event's type tag, and event_type is the
\* lowercase form of the category, in categorized_events and in
\* diagnostic_events.
C19_CategoryAndLowercaseType ==
    Exited =>
        /\ \A i \in 1..Len(Response.categorized_events) :
              LET record == Response.categorized_events[i]
              IN  /\ record.category \in {"Contract", "System", "Diagnostic"}
                  /\ record.category = host.events[i].type_
                  /\ record.event.event_type = Lowercase(record.category)
        /\ \A i \in 1..Len(Response.diagnostic_events) :
              Response.diagnostic_events[i].event_type = Lowercase(host.events[i].type_)

\* A response that classifies two events of different types, one of them a
\* System event.
C19_Witness ==
    /\ Exited
    /\ Len(Response.categorized_events) = 2
    /\ Response.categorized_events[1].category # Response.categorized_events[2].category
    /\ \E i \in 1..2 :
          /\ Response.categorized_events[i].category = "System"
          /\ Response.categorized_events[i].event.event_type = "system"

\* The ordered marker list: position, markers tested at that position, kind.
TrapMarkers ==
    LET L == TrapLiterals
    IN  << [markers |-> {L.out_of_bounds_memory}, kind |-> "OutOfBoundsMemoryAccess"],
           [markers |-> {L.out_of_bounds_table}, kind |-> "OutOfBoundsTableAccess"],
           [markers |-> {L.integer_overflow}, kind |-> "IntegerOverflow"],
           [markers |-> {L.division_by_zero}, kind |-> "IntegerDivisionByZero"],
           [markers |-> {L.invalid_conversion_to_int}, kind |-> "InvalidConversionToInt"],
           [markers |-> {L.unreachable}, kind |-> "Unreachable"],
           [markers |-> {L.call_stack_exhausted, L.stack_overflow}, kind |-> "StackOverflow"],
           [markers |-> {L.indirect_call_type_mismatch}, kind |-> "IndirectCallTypeMismatch"],
           [markers |-> {L.undefined_element, L.uninitialized_element},
            kind |-> "UndefinedElement"],
           [markers |-> {L.hosterror, L.host_error}, kind |-> "HostError"] >>

MarkersPresent(msg) ==
    {i \in 1..Len(TrapMarkers) : \E m \in TrapMarkers[i].markers : contains(to_lowercase(msg), m)}

FirstMarkerPresent(msg) ==
    CHOOSE i \in MarkersPresent(msg) : \A j \in MarkersPresent(msg) : i <= j

\* C20: classify_trap returns, for every raw message, the kind of the first
\* marker of the ordered list that the lowercased message contains (HostError
\* carrying the message), and Unknown(message) when it contains none.
C20_ClassifyTrapFirstMarker ==
    IsSome(trap_out) =>
        LET msg == Unwrap(trap_in)
            trap_kind == Unwrap(trap_out)
        IN  IF MarkersPresent(msg) = {}
            THEN trap_kind = TrapKind("Unknown", Some(msg))
            ELSE /\ trap_kind.kind = TrapMarkers[FirstMarkerPresent(msg)].kind
                 /\ trap_kind.msg = IF trap_kind.kind = "HostError" THEN Some(msg) ELSE None

\* A message with capital letters that holds the host-error marker ahead of
\* the unreachable marker has been classified as Unreachable.
C20_Witness ==
    /\ IsSome(trap_out)
    /\ to_lowercase(Unwrap(trap_in)) # Unwrap(trap_in)
    /\ {6, 10} \subseteq MarkersPresent(Unwrap(trap_in))
    /\ Unwrap(trap_out) = TrapKind("Unreachable", None)

\* The labels of the tracker a report was generated from, and their counts.
LcovLabels == {Unwrap(lcov_in)[i].name : i \in 1..Len(Unwrap(lcov_in))}

LcovCount(l) ==
    LET i == CHOOSE k \in 1..Len(Unwrap(lcov_in)) : Unwrap(lcov_in)[k].name = l
    IN  Unwrap(lcov_in)[i].count

LinesWith(report, head) == SelectSeq(report, LAMBDA line : line[1] = head)

\* Position of a label among the recorded labels in ascending order.
RankOf(l) == 1 + Cardinality({x \in LcovLabels : str_lt(x, l)})

\* C21: the report has one FN line per recorded label, the i-th carrying the
\* number i and the i-th label in ascending order; one FNDA line per label
\* carrying its count; FNF is the number of labels and FNH the number of labels
\* with a non-zero count.  (A line carries the label with newlines and commas
\* replaced by underscores.)
C21_LcovFunctionLines ==
    IsSome(lcov_out) =>
        LET report == Unwrap(lcov_out)
            fn == LinesWith(report, "FN:")
            fnda == LinesWith(report, "FNDA:")
            n == Cardinality(LcovLabels)
        IN  /\ Len(fn) = n
            /\ Len(fnda) = n
            /\ \A l \in LcovLabels :
                  /\ fn[RankOf(l)] = <<"FN:", ToString(RankOf(l)), ",">> \o sanitize(l)
                  /\ fnda[RankOf(l)] = <<"FNDA:", ToString(LcovCount(l)), ",">> \o sanitize(l)
            /\ LinesWith(report, "FNF:") = << <<"FNF:", ToString(n)>> >>
            /\ LinesWith(report, "FNH:") =
                  << <<"FNH:", ToString(Cardinality({l \in LcovLabels : LcovCount(l) > 0}))>> >>

\* A report was generated from a tracker that yields two labels in descending
\* order, one of them never invoked.
C21_Witness ==
    /\ IsSome(lcov_out)
    /\ Len(Unwrap(lcov_in)) = 2
    /\ str_lt(Unwrap(lcov_in)[2].name, Unwrap(lcov_in)[1].name)
    /\ Unwrap(lcov_in)[1].count = 0
    /\ Unwrap(lcov_in)[2].count > 0

\* C22: a wipe that returned Ok left a host with a fresh budget and empty
\* storage, no contract_id and no fn_name, the memory_limit it had, and the
\* module cache that was installed before the wipe; a wipe may follow a wipe.
C22_WipePreservesModules ==
    (IsSome(wipe_out) /\ Unwrap(wipe_out).ok) =>
        LET before == Unwrap(wipe_out).before
            after == Unwrap(sim_host)
        IN  /\ after.inner.cpu = 0 /\ after.inner.mem = 0
            /\ after.inner.storage = EmptyMap
            /\ after.contract_id = None
            /\ after.fn_name = None
            /\ after.memory_limit = before.memory_limit
            /\ after.inner.module_cache = before.inner.module_cache

\* The second of two consecutive wipes succeeded on a host that still holds
\* the module cache installed before the first.
C22_Witness ==
    /\ IsSome(wipe_out)
    /\ Unwrap(wipe_out).ok
    /\ Unwrap(wipe_out).consecutive = 2
    /\ IsSome(Unwrap(sim_host).inner.module_cache)
    /\ IsSome(Unwrap(sim_host).memory_limit)

\* The operations of the envelope as declared, and those whose dispatch started.
DeclaredOperations == Req.envelope_xdr.envelope.operations

IsInvocation(op) == op.body = "InvokeHostFunction"

IsSkipped(op) == ~IsInvocation(op)

StartedOperations == SubSeq(DeclaredOperations, 1, op_index)

IsSkipLine(line) == line[1] = "Skipping non-Soroban operation: "

DispatchedInOrder ==
    IsSome(request) =>
        LET skipped == SelectSeq(StartedOperations, IsSkipped)
        IN  /\ host.calls = SelectSeq(StartedOperations, IsInvocation)
            /\ SelectSeq(exec_logs, IsSkipLine) =
                  [i \in 1..Len(skipped) |->
                      <<"Skipping non-Soroban operation: ", skipped[i].body>>]
            /\ result.kind = "HostErr" =>
                  /\ op_index >= 1
                  /\ IsInvocation(DeclaredOperations[op_index])
            /\ result.kind = "Ok" => op_index = Len(DeclaredOperations)

StoppedAtHostError ==
    result.kind = "HostErr" =>
        /\ host' = host
        /\ exec_logs' = exec_logs
        /\ op_index' = op_index
        /\ result' = result

\* C23: the host is asked to invoke exactly the InvokeHostFunction operations
\* whose dispatch started, in declared order and once each; every other started
\* operation has one skip line; a host error is the result of the dispatcher
\* and nothing is invoked or logged after it, and the result is Ok only when
\* every operation was dispatched.
C23_DispatchOrderAndShortCircuit ==
    []DispatchedInOrder /\ [][StoppedAtHostError]_vars

\* The first of two operations returned a host error and the process ended
\* without the second having been dispatched.
C23_Witness ==
    /\ pc = "exited"
    /\ result.kind = "HostErr"
    /\ op_index = 1
    /\ Len(DeclaredOperations) = 2
    /\ Len(host.calls) = 1

MemoryOverLimit(h) == IsSome(Req.memory_limit) /\ h.mem > Unwrap(Req.memory_limit)

\* No operation is dispatched from a state whose memory is over the limit.
NoOperationBeginsOverLimit == op_index' = op_index + 1 => ~MemoryOverLimit(host)

\* Memory over the limit has been seen by a check: the dispatcher ended in
\* the panic the check raises.
OverLimitWasChecked ==
    (IsSome(request) /\ MemoryOverLimit(host)) =>
        /\ result.kind = "Panic"
        /\ result.payload.origin = "memory_check"

\* C24: with a memory_limit, consumed memory is compared with it before and
\* after every operation: no operation begins with memory over the limit, and
\* memory left over the limit by an operation that ran is caught by the check
\* that follows it.
C24_MemoryCheckedAroundEveryOperation ==
    []OverLimitWasChecked /\ [][NoOperationBeginsOverLimit]_vars

\* The first half alone, which holds.
OperationsBeginWithinLimit == [][NoOperationBeginsOverLimit]_vars

DispatcherStopped == pc \in {"report", "exited"} /\ IsSome(request)

StartedInvocationsOf(label) ==
    {i \in 1..op_index :
        /\ IsInvocation(DeclaredOperations[i])
        /\ function_label(DeclaredOperations[i]) = label}

\* C25: once the dispatcher has stopped, normally, by host error or by panic,
\* the count of every label is the number of InvokeHostFunction operations
\* with that label whose dispatch started; later operations and operations of
\* other kinds add nothing.
C25_CoverageCountsStartedInvocations ==
    DispatcherStopped =>
        \A label \in FunctionLabels :
            coverage[label] = Cardinality(StartedInvocationsOf(label))

\* The process ended after the host panicked in the second of two contract
\* calls; both are counted.
C25_Witness ==
    /\ pc = "exited"
    /\ result.kind = "Panic"
    /\ result.payload.origin = "host"
    /\ op_index = 2
    /\ coverage[function_label(InvokeTransfer)] = 2

LineCache == Unwrap(line_out)

\* C26: the line cache is sorted by strictly increasing start, and every
\* bounded entry satisfies start <= end <= the start of the next entry.
C26_LineCacheSortedAndDisjoint ==
    IsSome(line_out) =>
        /\ \A i \in 1..(Len(LineCache) - 1) : LineCache[i].start < LineCache[i + 1].start
        /\ \A i \in 1..Len(LineCache) :
              IsSome(LineCache[i].end) =>
                  /\ LineCache[i].start <= Unwrap(LineCache[i].end)
                  /\ i < Len(LineCache) => Unwrap(LineCache[i].end) <= LineCache[i + 1].start

\* The first half of C26 alone: strictly increasing starts.
LineCacheStrictlySorted ==
    IsSome(line_out) =>
        \A i \in 1..(Len(LineCache) - 1) : LineCache[i].start < LineCache[i + 1].start

RECURSIVE Flatten(_)
Flatten(seqs) == IF seqs = <<>> THEN <<>> ELSE Head(seqs) \o Flatten(Tail(seqs))

\* All rows of the units in walk order.
WalkedRows ==
    Flatten([u \in 1..Len(Unwrap(line_in)) |->
                IF IsSome(Unwrap(line_in)[u].line_program)
                THEN Flatten(Unwrap(Unwrap(line_in)[u].line_program))
                ELSE <<>>])

\* Places in `rows` of the rows that yield an entry starting at `address`.
RowsYieldingAt(rows, address) ==
    {k \in 1..Len(rows) :
        /\ ~rows[k].end_sequence
        /\ IsSome(rows[k].file) /\ IsSome(rows[k].line)
        /\ rows[k].address = address}

LatestRowAt(rows, address) ==
    LET yielding == RowsYieldingAt(rows, address)
    IN  rows[CHOOSE k \in yielding : \A j \in yielding : j <= k]

\* C27: for every start address that rows yield entries for, the line cache
\* holds exactly one entry with that start, and it carries the location of the
\* row that comes latest in the walk.
C27_LatestRowWins ==
    IsSome(line_out) =>
        LET rows == WalkedRows
            cache == LineCache
        IN  \A address \in RowAddresses :
                LET at == {i \in 1..Len(cache) : cache[i].start = address}
                IN  IF RowsYieldingAt(rows, address) = {}
                    THEN at = {}
                    ELSE LET latest == LatestRowAt(rows, address)
                         IN  /\ Cardinality(at) = 1
                             /\ \A i \in at :
                                   cache[i].location =
                                      SourceLocation(Unwrap(latest.file), Unwrap(latest.line),
                                                     latest.column, None, None)

\* A cache was built from two units that both have a row at address 1.
C27_Witness ==
    /\ IsSome(line_out)
    /\ Len(Unwrap(line_in)) = 3
    /\ \E k \in RowsYieldingAt(WalkedRows, 1) :
          k <= Len(Unwrap(Unwrap(line_in)[1].line_program)[1])
    /\ \E k \in RowsYieldingAt(WalkedRows, 1) :
          k > Len(Unwrap(Unwrap(line_in)[1].line_program)[1])
    /\ \E i \in 1..Len(LineCache) : LineCache[i].start = 1 /\ LineCache[i].location.line > 20

StoredEntries == {Procs.writers[w].entry : w \in Writers}

AllStoresCompleted == \A w \in Writers : Procs.writers[w].pc = "done"

\* A completed get returned a miss or an entry passed to some store.
GetsReturnStoredEntries ==
    (Procs.reader.pc = "done" /\ IsSome(Procs.reader.result)) =>
        Unwrap(Procs.reader.result) \in StoredEntries

\* With all stores completed, the file holds the entry of the last to complete.
LastWriterWins ==
    AllStoresCompleted =>
        get(map_insert(EmptyMap, RaceHash, Unwrap(race_file)), RaceHash) =
           Some(Procs.writers[Procs.finished[Len(Procs.finished)]].entry)

\* C28: a get that ran among concurrent stores on the same hash returned a
\* miss or an entry equal to one passed to a store, and once all stores have
\* completed the file holds the entry of the store that completed last.
C28_ReadersSeeWholeEntries ==
    IsSome(race_procs) => (GetsReturnStoredEntries /\ LastWriterWins)

ResponseEmitted == pc = "exited" /\ stdout # <<>>

\* C29: an emitted response carries budget_usage exactly when the dispatcher
\* completed without host error or panic (the success and the mocked-fee error
\* responses), and its operations_count is then the number of operations of
\* the envelope; host-error, panic and send_error responses carry none.
C29_BudgetUsageOnCompletedDispatch ==
    ResponseEmitted =>
        /\ IsSome(Response.budget_usage) <=> result.kind = "Ok"
        /\ IsSome(Response.budget_usage) =>
              Unwrap(Response.budget_usage).operations_count = Len(DeclaredOperations)

\* A completed dispatch over an envelope that holds a skipped operation has
\* been reported with its budget_usage.
C29_Witness ==
    /\ ResponseEmitted
    /\ result.kind = "Ok"
    /\ IsSome(Response.budget_usage)
    /\ \E i \in 1..Len(DeclaredOperations) : IsSkipped(DeclaredOperations[i])

CompletedDispatchResponse == ResponseEmitted /\ result.kind = "Ok"

\* Where both lists have an entry, the two conversions produced the same
\* event, the one the host emitted at that position.
ConversionsAgree ==
    CompletedDispatchResponse =>
        \A i \in 1..Min(Len(Response.diagnostic_events), Len(Response.categorized_events)) :
            /\ Response.diagnostic_events[i] = Response.categorized_events[i].event
            /\ Response.diagnostic_events[i] = diagnostic_event(host.events[i])

\* C30: in every response built from a completed dispatch, diagnostic_events
\* and the events inside categorized_events are the same sequence, index by
\* index and in the host's emission order: the two conversions, and the two
\* reads of the host's events behind them, agree.
C30_DiagnosticAndCategorizedAgree ==
    CompletedDispatchResponse =>
        /\ Len(Response.diagnostic_events) = Len(Response.categorized_events)
        /\ \A i \in 1..Len(Response.diagnostic_events) :
              /\ Response.diagnostic_events[i] = Response.categorized_events[i].event
              /\ Response.diagnostic_events[i] = diagnostic_event(host.events[i])

=============================================================================
